---- MODULE Spec2Model ----
(***************************************************************************)
(* Vehicle catalog matching: the entity resolver of                        *)
(* backend/data/normalize.py (find_master_car, normalize_listings) and the *)
(* scoring engine of backend/scoring_engine.py (score_all_cars).           *)
(*                                                                         *)
(* Conventions.  A Python str is a sequence of one-character strings, so   *)
(* that upper(), strip(), title() and difflib's ratio() are computed       *)
(* character by character.  A Python float that the code only compares,    *)
(* adds or multiplies is an exact rational: a similarity is a pair         *)
(* <<numerator, denominator>>, a priority is counted in hundredths, a      *)
(* rating and a 0-60 time in tenths, a weight in ten-thousandths.          *)
(* Python None is <<>> for tuples, rows and strings (where the code tests  *)
(* only truthiness, which None and "" share) and NoneInt for integers.     *)
(***************************************************************************)
EXTENDS Integers, Sequences, FiniteSets, TLC

VARIABLES
    cars_master,    \* the cars_master table: a sequence of CarMaster rows
    query,          \* the arguments of the calls under study
    calls,          \* the calls made so far with what they returned, oldest first
    car_listings,   \* the committed car_listings table
    session,        \* the listing rows as the open session sees them
    run,            \* normalize_listings: its arguments, loop position and counters
    cars,           \* CarDatabase._cars, in catalog order
    user_intent,    \* the UserIntent of the next score_all_cars call
    searches        \* the latest score_all_cars call, if any

vars == << cars_master, query, calls, car_listings, session, run, cars, user_intent, searches >>

None == <<>>
NoneInt == -1

Range(s) == { s[i] : i \in DOMAIN s }
\* the element of a one-element set
The(S) == CHOOSE x \in S : TRUE
SetMax(S) == CHOOSE x \in S : \A y \in S : y <= x
SetMin(S) == CHOOSE x \in S : \A y \in S : x <= y

(***************************************************************************)
(* str methods                                                             *)
(***************************************************************************)
LowerLetters ==
    << "a", "b", "c", "d", "e", "f", "g", "h", "i", "j", "k", "l", "m",
       "n", "o", "p", "q", "r", "s", "t", "u", "v", "w", "x", "y", "z" >>
UpperLetters ==
    << "A", "B", "C", "D", "E", "F", "G", "H", "I", "J", "K", "L", "M",
       "N", "O", "P", "Q", "R", "S", "T", "U", "V", "W", "X", "Y", "Z" >>

IsLowerCh(c) == \E i \in DOMAIN LowerLetters : LowerLetters[i] = c
IsUpperCh(c) == \E i \in DOMAIN UpperLetters : UpperLetters[i] = c
IsCased(c) == IsLowerCh(c) \/ IsUpperCh(c)
IsSpace(c) == c = " "

UpperCh(c) ==
    IF IsLowerCh(c)
    THEN UpperLetters[CHOOSE i \in DOMAIN LowerLetters : LowerLetters[i] = c]
    ELSE c
LowerCh(c) ==
    IF IsUpperCh(c)
    THEN LowerLetters[CHOOSE i \in DOMAIN UpperLetters : UpperLetters[i] = c]
    ELSE c

\* str.upper(), str.lower()
upper(s) == [ i \in 1..Len(s) |-> UpperCh(s[i]) ]
lower(s) == [ i \in 1..Len(s) |-> LowerCh(s[i]) ]

\* str.strip(): leading and trailing whitespace removed
RECURSIVE lstrip(_)
lstrip(s) == IF s # <<>> /\ IsSpace(Head(s)) THEN lstrip(Tail(s)) ELSE s
RECURSIVE rstrip(_)
rstrip(s) ==
    IF s # <<>> /\ IsSpace(s[Len(s)]) THEN rstrip(SubSeq(s, 1, Len(s) - 1)) ELSE s
strip(s) == rstrip(lstrip(s))

\* str.title(): a cased character is upper-cased when it starts a run of cased
\* characters and lower-cased inside one
title(s) ==
    [ i \in 1..Len(s) |->
        IF IsCased(s[i])
        THEN IF i > 1 /\ IsCased(s[i - 1]) THEN LowerCh(s[i]) ELSE UpperCh(s[i])
        ELSE s[i] ]

\* re.sub(r'\s+', ' ', s): every run of whitespace becomes one space
RECURSIVE collapse_whitespace(_)
collapse_whitespace(s) ==
    IF s = <<>> THEN <<>>
    ELSE IF IsSpace(Head(s))
         THEN << " " >> \o collapse_whitespace(lstrip(s))
         ELSE << Head(s) >> \o collapse_whitespace(Tail(s))

\* needle in haystack, for two str
Contains(haystack, needle) ==
    \E h \in { haystack }, n \in { needle } :
        \E i \in 0..(Len(h) - Len(n)) : SubSeq(h, i + 1, i + Len(n)) = n

(***************************************************************************)
(* Alias tables of the normalization layer: pairs <<key, canonical name>>  *)
(***************************************************************************)
MAKE_ALIASES ==
    { << <<"M", "E", "R", "C", "E", "D", "E", "S">>,
         <<"M", "e", "r", "c", "e", "d", "e", "s", "-", "B", "e", "n", "z">> >>,
      << <<"M", "E", "R", "C", "E", "D", "E", "S", " ", "B", "E", "N", "Z">>,
         <<"M", "e", "r", "c", "e", "d", "e", "s", "-", "B", "e", "n", "z">> >>,
      << <<"M", "E", "R", "C", "E", "D", "E", "S", "-", "B", "E", "N", "Z">>,
         <<"M", "e", "r", "c", "e", "d", "e", "s", "-", "B", "e", "n", "z">> >>,
      << <<"M", "B">>,
         <<"M", "e", "r", "c", "e", "d", "e", "s", "-", "B", "e", "n", "z">> >>,
      << <<"V", "W">>,
         <<"V", "o", "l", "k", "s", "w", "a", "g", "e", "n">> >>,
      << <<"C", "H", "E", "V", "Y">>,
         <<"C", "h", "e", "v", "r", "o", "l", "e", "t">> >>,
      << <<"L", "A", "N", "D", " ", "R", "O", "V", "E", "R">>,
         <<"L", "a", "n", "d", " ", "R", "o", "v", "e", "r">> >>,
      << <<"L", "A", "N", "D", "R", "O", "V", "E", "R">>,
         <<"L", "a", "n", "d", " ", "R", "o", "v", "e", "r">> >>,
      << <<"A", "L", "F", "A", " ", "R", "O", "M", "E", "O">>,
         <<"A", "l", "f", "a", " ", "R", "o", "m", "e", "o">> >>,
      << <<"A", "L", "F", "A">>,
         <<"A", "l", "f", "a", " ", "R", "o", "m", "e", "o">> >>,
      << <<"A", "S", "T", "O", "N", " ", "M", "A", "R", "T", "I", "N">>,
         <<"A", "s", "t", "o", "n", " ", "M", "a", "r", "t", "i", "n">> >>,
      << <<"R", "O", "L", "L", "S", " ", "R", "O", "Y", "C", "E">>,
         <<"R", "o", "l", "l", "s", "-", "R", "o", "y", "c", "e">> >>,
      << <<"R", "O", "L", "L", "S", "-", "R", "O", "Y", "C", "E">>,
         <<"R", "o", "l", "l", "s", "-", "R", "o", "y", "c", "e">> >> }

MODEL_ALIASES ==
    { << <<"3", " ", "S", "E", "R", "I", "E", "S">>,
         <<"3", " ", "S", "e", "r", "i", "e", "s">> >>,
      << <<"4", " ", "S", "E", "R", "I", "E", "S">>,
         <<"4", " ", "S", "e", "r", "i", "e", "s">> >>,
      << <<"5", " ", "S", "E", "R", "I", "E", "S">>,
         <<"5", " ", "S", "e", "r", "i", "e", "s">> >>,
      << <<"7", " ", "S", "E", "R", "I", "E", "S">>,
         <<"7", " ", "S", "e", "r", "i", "e", "s">> >>,
      << <<"X", "3">>,
         <<"X", "3">> >>,
      << <<"X", "5">>,
         <<"X", "5">> >>,
      << <<"C", " ", "C", "L", "A", "S", "S">>,
         <<"C", "-", "C", "l", "a", "s", "s">> >>,
      << <<"C", "-", "C", "L", "A", "S", "S">>,
         <<"C", "-", "C", "l", "a", "s", "s">> >>,
      << <<"E", " ", "C", "L", "A", "S", "S">>,
         <<"E", "-", "C", "l", "a", "s", "s">> >>,
      << <<"E", "-", "C", "L", "A", "S", "S">>,
         <<"E", "-", "C", "l", "a", "s", "s">> >>,
      << <<"S", " ", "C", "L", "A", "S", "S">>,
         <<"S", "-", "C", "l", "a", "s", "s">> >>,
      << <<"S", "-", "C", "L", "A", "S", "S">>,
         <<"S", "-", "C", "l", "a", "s", "s">> >>,
      << <<"G", "L", "C", " ", "C", "L", "A", "S", "S">>,
         <<"G", "L", "C", "-", "C", "l", "a", "s", "s">> >>,
      << <<"G", "L", "C", "-", "C", "L", "A", "S", "S">>,
         <<"G", "L", "C", "-", "C", "l", "a", "s", "s">> >>,
      << <<"G", "L", "E", " ", "C", "L", "A", "S", "S">>,
         <<"G", "L", "E", "-", "C", "l", "a", "s", "s">> >>,
      << <<"G", "L", "E", "-", "C", "L", "A", "S", "S">>,
         <<"G", "L", "E", "-", "C", "l", "a", "s", "s">> >>,
      << <<"C", "I", "V", "I", "C", " ", "S", "I">>,
         <<"C", "i", "v", "i", "c", " ", "S", "i">> >>,
      << <<"C", "I", "V", "I", "C", " ", "T", "Y", "P", "E", " ", "R">>,
         <<"C", "i", "v", "i", "c", " ", "T", "y", "p", "e", " ", "R">> >>,
      << <<"M", "U", "S", "T", "A", "N", "G", " ", "G", "T">>,
         <<"M", "u", "s", "t", "a", "n", "g">> >> }

Lookup(table, key) == (CHOOSE p \in table : p[1] = key)[2]
InTable(table, key) == \E p \in table : p[1] = key

s_BMW == << "B", "M", "W" >>
s_GMC == << "G", "M", "C" >>
s_RAM == << "R", "A", "M" >>
s_Ram == << "R", "a", "m" >>
s_MINI == << "M", "I", "N", "I" >>

normalize_make(make) ==
    IF make = <<>> THEN make
    ELSE LET upper_make == strip(upper(make))
             normalized == title(strip(make))
         IN  IF InTable(MAKE_ALIASES, upper_make) THEN Lookup(MAKE_ALIASES, upper_make)
             ELSE IF upper(normalized) = s_BMW THEN s_BMW
             ELSE IF upper(normalized) = s_GMC THEN s_GMC
             ELSE IF upper(normalized) = s_RAM THEN s_Ram
             ELSE IF upper(normalized) = s_MINI THEN s_MINI
             ELSE normalized

normalize_model(model) ==
    IF model = <<>> THEN model
    ELSE LET upper_model == strip(upper(model))
         IN  IF InTable(MODEL_ALIASES, upper_model) THEN Lookup(MODEL_ALIASES, upper_model)
             ELSE collapse_whitespace(strip(model))

(***************************************************************************)
(* difflib.SequenceMatcher(None, a, b).ratio(), without junk (the autojunk *)
(* heuristic needs a second sequence of 200 or more characters)            *)
(***************************************************************************)
\* length of the common run a[i:], b[j:] inside a[..ahi), b[..bhi); 0-based
RECURSIVE RunLen(_, _, _, _, _, _)
RunLen(a, b, i, j, ahi, bhi) ==
    IF i < ahi /\ j < bhi /\ a[i + 1] = b[j + 1]
    THEN 1 + RunLen(a, b, i + 1, j + 1, ahi, bhi)
    ELSE 0

\* <<i, j, k>>: the longest block a[i:i+k] = b[j:j+k] in a[alo:ahi], b[blo:bhi],
\* the one starting earliest in a and, of those, earliest in b
find_longest_match(a, b, alo, ahi, blo, bhi) ==
    LET pairs == (alo..(ahi - 1)) \X (blo..(bhi - 1))
        size(p) == RunLen(a, b, p[1], p[2], ahi, bhi)
        bestsize == IF pairs = {} THEN 0 ELSE SetMax({ size(p) : p \in pairs })
        longest == { p \in pairs : size(p) = bestsize }
        besti == SetMin({ p[1] : p \in longest })
        bestj == SetMin({ p[2] : p \in { q \in longest : q[1] = besti } })
    IN  IF bestsize = 0 THEN << alo, blo, 0 >> ELSE << besti, bestj, bestsize >>

\* the summed sizes of get_matching_blocks()
RECURSIVE MatchingSize(_, _, _, _, _, _)
MatchingSize(a, b, alo, ahi, blo, bhi) ==
    LET x == find_longest_match(a, b, alo, ahi, blo, bhi)
        i == x[1]
        j == x[2]
        k == x[3]
    IN  IF k = 0 THEN 0
        ELSE k
             + (IF alo < i /\ blo < j THEN MatchingSize(a, b, alo, i, blo, j) ELSE 0)
             + (IF i + k < ahi /\ j + k < bhi
                THEN MatchingSize(a, b, i + k, ahi, j + k, bhi) ELSE 0)

\* a ratio that counts the matched characters once: matches / length
ratio_counted_once(a, b) ==
    IF Len(a) + Len(b) = 0 THEN << 1, 1 >>
    ELSE << MatchingSize(a, b, 0, Len(a), 0, Len(b)), Len(a) + Len(b) >>

\* 2.0 * matches / length as the rational <<2 * matches, length>>
ratio(a, b) ==
    IF Len(a) + Len(b) = 0 THEN << 1, 1 >>
    ELSE << 2 * MatchingSize(a, b, 0, Len(a), 0, Len(b)), Len(a) + Len(b) >>

similarity_score(s1, s2) ==
    IF s1 = <<>> \/ s2 = <<>> THEN << 0, 1 >> ELSE ratio(upper(s1), upper(s2))

\* comparison of rationals with positive denominators
RatLt(x, y) == x[1] * y[2] < y[1] * x[2]
RatLe(x, y) == x[1] * y[2] <= y[1] * x[2]
RatEq(x, y) == x[1] * y[2] = y[1] * x[2]

(***************************************************************************)
(* find_master_car                                                         *)
(***************************************************************************)
\* the selection without its test on the year
MakeYearRows_any_year(table, normalized_make, year) ==
    { r \in Range(table) : upper(r.make) = upper(normalized_make) }

\* WHERE upper(make) = normalized_make.upper() AND year = :year
MakeYearRows(table, normalized_make, year) ==
    { r \in Range(table) : upper(r.make) = upper(normalized_make) /\ r.year = year }

\* ... AND upper(model) = normalized_model.upper()
ExactRows(table, normalized_make, normalized_model, year) ==
    { r \in MakeYearRows(table, normalized_make, year) :
        upper(r.model) = upper(normalized_model) }

\* The three SELECTs carry no ORDER BY: the database returns the selected rows
\* in an order of its choosing, and .first() / .limit(1) keep the first of them.
Orderings(rows) ==
    { s \in [ 1..Cardinality(rows) -> rows ] : Range(s) = rows }
\* what .first() can return: None without rows, else whichever row comes first
first(rows) == IF rows = {} THEN { None } ELSE rows

\* The loop with one of its two tests changed: without the test against the
\* threshold, with "score > threshold" for "score >= threshold", and with
\* "score >= best_score" for "score > best_score".
RECURSIVE FuzzyLoop_no_threshold(_, _, _, _, _)
FuzzyLoop_no_threshold(candidates, score, threshold, best_match, best_score) ==
    IF candidates = <<>> THEN << best_match, best_score >>
    ELSE LET candidate == Head(candidates)
         IN  IF RatLt(best_score, score[candidate])
             THEN FuzzyLoop_no_threshold(Tail(candidates), score, threshold,
                                         candidate, score[candidate])
             ELSE FuzzyLoop_no_threshold(Tail(candidates), score, threshold,
                                         best_match, best_score)
RECURSIVE FuzzyLoop_above_threshold(_, _, _, _, _)
FuzzyLoop_above_threshold(candidates, score, threshold, best_match, best_score) ==
    IF candidates = <<>> THEN << best_match, best_score >>
    ELSE LET candidate == Head(candidates)
         IN  IF RatLt(best_score, score[candidate]) /\ RatLt(threshold, score[candidate])
             THEN FuzzyLoop_above_threshold(Tail(candidates), score, threshold,
                                            candidate, score[candidate])
             ELSE FuzzyLoop_above_threshold(Tail(candidates), score, threshold,
                                            best_match, best_score)
RECURSIVE FuzzyLoop_last_maximum(_, _, _, _, _)
FuzzyLoop_last_maximum(candidates, score, threshold, best_match, best_score) ==
    IF candidates = <<>> THEN << best_match, best_score >>
    ELSE LET candidate == Head(candidates)
         IN  IF RatLe(best_score, score[candidate]) /\ RatLe(threshold, score[candidate])
             THEN FuzzyLoop_last_maximum(Tail(candidates), score, threshold,
                                         candidate, score[candidate])
             ELSE FuzzyLoop_last_maximum(Tail(candidates), score, threshold,
                                         best_match, best_score)

\* the loop over candidates: <<best_match, best_score>> after the rows left;
\* score[candidate] is similarity_score(normalized_model, candidate.model)
RECURSIVE FuzzyLoop(_, _, _, _, _)
FuzzyLoop(candidates, score, threshold, best_match, best_score) ==
    IF candidates = <<>> THEN << best_match, best_score >>
    ELSE LET candidate == Head(candidates)
         IN  IF RatLt(best_score, score[candidate]) /\ RatLe(threshold, score[candidate])
             THEN FuzzyLoop(Tail(candidates), score, threshold,
                            candidate, score[candidate])
             ELSE FuzzyLoop(Tail(candidates), score, threshold, best_match, best_score)

\* The body of find_master_car after its queries: exact_match, candidates and
\* any_model_match are what the three session.execute calls returned, score
\* the similarity of the normalized model to each candidate's model.  The
\* value returned is result (None, or the tuple (id, confidence)); tier names
\* the return statement that produced it.
find_master_car(score, threshold, exact_match, candidates, any_model_match) ==
    LET fuzzy == FuzzyLoop(candidates, score, threshold, None, << 0, 1 >>)
        best_match == fuzzy[1]
        best_score == fuzzy[2]
    IN  IF exact_match # None
        THEN [ result |-> << exact_match.id, << 1, 1 >> >>, tier |-> "EXACT" ]
        ELSE IF best_match # None
        THEN [ result |-> << best_match.id, best_score >>, tier |-> "FUZZY" ]
        ELSE IF any_model_match # None
        THEN [ result |-> << any_model_match.id, << 3, 10 >> >>, tier |-> "FALLBACK" ]
        ELSE [ result |-> None, tier |-> "NONE" ]

\* similarity_score(normalized_model, candidate.model) for the rows selected
Scores(rows, normalized_model) ==
    [ r \in rows |-> similarity_score(normalized_model, r.model) ]

\* What the queries of one call select, with the similarity of each candidate
Selected(table, make, model, year) ==
    LET normalized_make == normalize_make(make)
        normalized_model == normalize_model(model)
        same == MakeYearRows(table, normalized_make, year)
    IN  [ exact |-> ExactRows(table, normalized_make, normalized_model, year),
          same |-> same,
          score |-> Scores(same, normalized_model) ]

\* Every way one call of find_master_car can go on an unchanged table: the
\* call's return value with the candidates list its fuzzy loop iterated.
FindMasterCarRuns(table, make, model, year, threshold) ==
    UNION { { [ returned |-> find_master_car(q.score, threshold, e, c, a),
                candidates |-> c ] :
                e \in first(q.exact), c \in Orderings(q.same), a \in first(q.same) } :
            q \in { Selected(table, make, model, year) } }

(***************************************************************************)
(* The catalog and the listings the resolver is studied on                 *)
(***************************************************************************)
s_Chevrolet == <<"C", "h", "e", "v", "r", "o", "l", "e", "t">>
s_Chevy == <<"C", "h", "e", "v", "y">>
s_Camaro == <<"C", "a", "m", "a", "r", "o">>
s_camaro == <<"c", "a", "m", "a", "r", "o">>
s_Camaro_SS == <<"C", "a", "m", "a", "r", "o", " ", "S", "S">>
s_Malibu == <<"M", "a", "l", "i", "b", "u">>
s_X3 == <<"X", "3">>
s_X5 == <<"X", "5">>
s_bmw == <<"b", "m", "w">>

\* CarMaster rows before their id: (make, model, year, trim) is unique
MasterPool ==
    { [ make |-> s_Chevrolet, model |-> s_Camaro, year |-> 2020, trim |-> "LT" ],
      [ make |-> s_Chevrolet, model |-> s_Camaro, year |-> 2020, trim |-> "SS" ],
      [ make |-> s_Chevrolet, model |-> s_Malibu, year |-> 2020, trim |-> "LT" ],
      [ make |-> s_Chevrolet, model |-> s_Camaro, year |-> 2021, trim |-> "LT" ],
      [ make |-> s_BMW, model |-> s_X3, year |-> 2020, trim |-> "M40i" ] }

MaxCatalog == 3

\* tables of up to MaxCatalog distinct rows, ids by autoincrement
WithIds(rows) ==
    [ i \in DOMAIN rows |->
        [ id |-> i, make |-> rows[i].make, model |-> rows[i].model,
          year |-> rows[i].year, trim |-> rows[i].trim ] ]
Catalogs ==
    { WithIds(s) :
        s \in UNION { { t \in [ 1..n -> MasterPool ] :
                          \A i, j \in 1..n : t[i] = t[j] => i = j } :
                      n \in 0..MaxCatalog } }

ListingMakes == { s_Chevy, s_bmw }
ListingModels == { s_Camaro_SS, s_camaro, s_X5 }
ListingYears == { 2020 }
\* 0, 0.5 and the default 0.8
Thresholds == { << 0, 1 >>, << 1, 2 >>, << 4, 5 >> }

Queries ==
    [ make : ListingMakes, model : ListingModels, year : ListingYears,
      threshold : Thresholds ]

\* the last call and the one before it
Remember(history, call) ==
    IF Len(history) < 2 THEN Append(history, call) ELSE << history[2], call >>

IdleBatch == [ pc |-> "idle" ]

InitResolve ==
    /\ cars_master \in Catalogs
    /\ query \in Queries
    /\ calls = <<>>
    /\ car_listings = <<>>
    /\ session = <<>>
    /\ run = IdleBatch
    /\ cars = <<>>
    /\ user_intent = None
    /\ searches = <<>>

\* one call find_master_car(session, make, model, year, threshold=threshold)
FindMasterCar ==
    /\ \E r \in FindMasterCarRuns(cars_master, query.make, query.model, query.year,
                                 query.threshold) :
           calls' = Remember(calls, r)
    /\ UNCHANGED << cars_master, query, car_listings, session, run, cars, user_intent, searches >>

NextResolve == FindMasterCar

SpecResolve == InitResolve /\ [][NextResolve]_vars

(***************************************************************************)
(* Properties of find_master_car, under SpecResolve                       *)
(***************************************************************************)
Confidence(call) == call.returned.result[2]
MatchedId(call) == call.returned.result[1]
Matched(call) == call.returned.result # None

\* What the properties compare a call with: the rows sharing the listing's
\* normalized make (case-insensitively) and year, those of them that have the
\* listing's normalized model as well (case-insensitively), and the similarity
\* of the listing's normalized model to each row's model.
Listing == { Selected(cars_master, query.make, query.model, query.year) }
\* r attains the maximum similarity among the rows sharing make and year
AttainsMax(f, r) == \A o \in f.same : RatLe(f.score[o], f.score[r])

\* C2: every call returns one of four outcomes: confidence exactly 1.0 (exact),
\* a confidence in [threshold, 1.0) (fuzzy), exactly 0.3 (fallback), or no
\* match; a fuzzy match never carries 1.0 or a confidence below the threshold.
C2_FourOutcomes ==
    \A n \in DOMAIN calls :
        LET call == calls[n]
        IN  \/ /\ call.returned.tier = "EXACT"
               /\ Matched(call)
               /\ Confidence(call) = << 1, 1 >>
            \/ /\ call.returned.tier = "FUZZY"
               /\ Matched(call)
               /\ RatLe(query.threshold, Confidence(call))
               /\ RatLt(Confidence(call), << 1, 1 >>)
            \/ /\ call.returned.tier = "FALLBACK"
               /\ Matched(call)
               /\ Confidence(call) = << 3, 10 >>
            \/ /\ call.returned.tier = "NONE"
               /\ ~Matched(call)

\* a fuzzy match whose confidence is exactly the threshold 0.8
C2_Witness ==
    \E n \in DOMAIN calls :
        /\ calls[n].returned.tier = "FUZZY"
        /\ query.threshold = << 4, 5 >>
        /\ RatEq(Confidence(calls[n]), query.threshold)

\* C3 as stated: EXACT whenever a row has equal make, model and year; otherwise
\* FUZZY whenever the maximum similarity among the rows sharing make and year
\* is >= threshold, with that maximum as confidence; otherwise FALLBACK whenever
\* a row shares make and year; NONE exactly when no row shares make and year.
C3_HighestTier ==
    \A f \in Listing : \A n \in DOMAIN calls :
        LET call == calls[n]
            reached == \E r \in f.same :
                           AttainsMax(f, r) /\ RatLe(query.threshold, f.score[r])
        IN  /\ f.exact # {} => call.returned.tier = "EXACT"
            /\ (f.exact = {} /\ reached) =>
                   /\ call.returned.tier = "FUZZY"
                   /\ \E r \in f.same : AttainsMax(f, r) /\ Confidence(call) = f.score[r]
            /\ (f.exact = {} /\ ~reached /\ f.same # {}) =>
                   call.returned.tier = "FALLBACK"
            /\ (call.returned.tier = "NONE") <=> (f.same = {})

\* C3 amended: as C3, with FUZZY whenever that maximum is >= threshold and
\* greater than 0 (a maximum of 0 never makes a fuzzy match, whatever the
\* threshold), and with the matched row named at every tier.
C3_HighestTierAmended ==
    \A f \in Listing : \A n \in DOMAIN calls :
        LET call == calls[n]
            reached == \E r \in f.same :
                           /\ AttainsMax(f, r)
                           /\ RatLe(query.threshold, f.score[r])
                           /\ RatLt(<< 0, 1 >>, f.score[r])
        IN  /\ f.exact # {} =>
                   /\ call.returned.tier = "EXACT"
                   /\ Confidence(call) = << 1, 1 >>
                   /\ \E r \in f.exact : r.id = MatchedId(call)
            /\ (f.exact = {} /\ reached) =>
                   /\ call.returned.tier = "FUZZY"
                   /\ \E r \in f.same :
                          /\ r.id = MatchedId(call)
                          /\ AttainsMax(f, r)
                          /\ Confidence(call) = f.score[r]
            /\ (f.exact = {} /\ ~reached /\ f.same # {}) =>
                   /\ call.returned.tier = "FALLBACK"
                   /\ Confidence(call) = << 3, 10 >>
                   /\ \E r \in f.same : r.id = MatchedId(call)
            /\ (call.returned.tier = "NONE") <=> (f.same = {})

\* "Camaro SS" against "Camaro": a fuzzy match at similarity 12/15, exactly
\* the threshold 0.8
C3_Witness ==
    \E n \in DOMAIN calls :
        /\ query.model = s_Camaro_SS
        /\ query.threshold = << 4, 5 >>
        /\ calls[n].returned.tier = "FUZZY"
        /\ Confidence(calls[n]) = << 12, 15 >>

\* C4: two calls with the same listing fields, the same unchanged table and
\* the same threshold return the same vehicle id and the same confidence.
C4_Deterministic ==
    \A m, n \in DOMAIN calls : calls[m].returned.result = calls[n].returned.result

\* C5: when the fuzzy step returns a match, it is the first row, in the order
\* the loop iterated the candidates, that attains the maximum similarity.
C5_FirstMaximumWins ==
    \A f \in Listing : \A n \in DOMAIN calls :
        LET call == calls[n]
            at == { i \in DOMAIN call.candidates : AttainsMax(f, call.candidates[i]) }
        IN  call.returned.tier = "FUZZY" =>
                MatchedId(call) = call.candidates[SetMin(at)].id

\* a fuzzy match where two candidates tie for the maximum and the one iterated
\* first, which is returned, is the one with the larger id
C5_Witness ==
    \E f \in Listing : \E n \in DOMAIN calls :
        LET call == calls[n]
            at == { i \in DOMAIN call.candidates : AttainsMax(f, call.candidates[i]) }
        IN  /\ call.returned.tier = "FUZZY"
            /\ Cardinality(at) >= 2
            /\ \E i \in at : call.candidates[i].id < MatchedId(call)


\* C26: whenever find_master_car returns a match, at any tier, the matched
\* catalog vehicle has the listing's year and a make equal, without regard
\* to case, to the listing's normalized make.
C26_MatchSharesMakeAndYear ==
    \A n \in DOMAIN calls :
        Matched(calls[n]) =>
            \E i \in DOMAIN cars_master :
                /\ cars_master[i].id = MatchedId(calls[n])
                /\ cars_master[i].year = query.year
                /\ upper(cars_master[i].make) = upper(normalize_make(query.make))

\* a fuzzy or fallback match in a catalog that also holds a vehicle of
\* another year and a vehicle of the listing's year and another make
C26_Witness ==
    /\ \E i, j \in DOMAIN cars_master :
           /\ cars_master[i].year # query.year
           /\ upper(cars_master[j].make) # upper(normalize_make(query.make))
           /\ cars_master[j].year = query.year
    /\ \E n \in DOMAIN calls :
           /\ Matched(calls[n])
           /\ calls[n].returned.tier \in { "FUZZY", "FALLBACK" }

(***************************************************************************)
(* find_master_car on a listing that repeats a catalog row.  The catalog   *)
(* is what build_master_cars stores: the make's name title-cased, the      *)
(* model's name as the vehicle registry gives it, stripped, and no trim.   *)
(***************************************************************************)
s_Ford == <<"F", "o", "r", "d">>
s_Mustang == <<"M", "u", "s", "t", "a", "n", "g">>
s_Mustang_GT == <<"M", "u", "s", "t", "a", "n", "g", " ", "G", "T">>
s_Camaro__SS == <<"C", "a", "m", "a", "r", "o", " ", " ", "S", "S">>

\* rows whose make or model is a key of an alias table, rows whose make and
\* model are what the tables map to, and a model with a double space
IdenticalPool ==
    { [ make |-> s_Chevy, model |-> s_Camaro, year |-> 2020, trim |-> None ],
      [ make |-> s_Chevrolet, model |-> s_Camaro, year |-> 2020, trim |-> None ],
      [ make |-> s_Chevrolet, model |-> s_Camaro__SS, year |-> 2020, trim |-> None ],
      [ make |-> s_Ford, model |-> s_Mustang_GT, year |-> 2020, trim |-> None ],
      [ make |-> s_Ford, model |-> s_Mustang, year |-> 2020, trim |-> None ],
      [ make |-> s_BMW, model |-> s_X3, year |-> 2020, trim |-> None ] }

IdenticalCatalogs ==
    { WithIds(s) :
        s \in UNION { { t \in [ 1..n -> IdenticalPool ] :
                          \A i, j \in 1..n : t[i] = t[j] => i = j } :
                      n \in 1..MaxCatalog } }

\* the listing has the make, model and year of one of the catalog's rows
InitIdentical ==
    /\ cars_master \in IdenticalCatalogs
    /\ query \in { [ make |-> cars_master[i].make, model |-> cars_master[i].model,
                     year |-> cars_master[i].year, threshold |-> threshold ] :
                     i \in DOMAIN cars_master, threshold \in Thresholds }
    /\ calls = <<>>
    /\ car_listings = <<>>
    /\ session = <<>>
    /\ run = IdleBatch
    /\ cars = <<>>
    /\ user_intent = None
    /\ searches = <<>>

SpecIdentical == InitIdentical /\ [][NextResolve]_vars

\* C27: a listing whose make, model and year are character for character
\* those of a catalog vehicle is resolved to a vehicle with that make, model
\* and year with confidence 1.0, at the exact tier, whatever the make and
\* the model, keys of the alias tables included.
C27_IdenticalListingIsExact ==
    \A n \in DOMAIN calls :
        (\E i \in DOMAIN cars_master :
             /\ cars_master[i].make = query.make
             /\ cars_master[i].model = query.model
             /\ cars_master[i].year = query.year)
        => /\ Matched(calls[n])
           /\ calls[n].returned.tier = "EXACT"
           /\ Confidence(calls[n]) = << 1, 1 >>
           /\ \E i \in DOMAIN cars_master :
                  /\ cars_master[i].id = MatchedId(calls[n])
                  /\ cars_master[i].make = query.make
                  /\ cars_master[i].model = query.model
                  /\ cars_master[i].year = query.year
(***************************************************************************)
(* normalize_listings                                                      *)
(***************************************************************************)
\* A CarListing row.  Of the columns of car_listings the model keeps id, vin,
\* make, model, year, trim and master_car_id; the others (price, mileage,
\* city, state, zip_code, dealer_name, dealer_id, drivetrain, engine,
\* transmission, exterior_color, interior_color, mpg_city, mpg_hwy, body_type,
\* doors, listing_url, photo_url, source, scraped_at, last_updated,
\* created_at) are never read or written by normalize_listings.
CarListingColumns == { "id", "vin", "make", "model", "year", "trim", "master_car_id" }

\* scraped listings before their id: vin is unique
ListingPool ==
    { [ vin |-> "VIN-A", make |-> s_Chevy, model |-> s_Camaro_SS, year |-> 2020,
        trim |-> "SS" ],
      [ vin |-> "VIN-B", make |-> s_bmw, model |-> s_X5, year |-> 2020,
        trim |-> "xDrive" ],
      [ vin |-> "VIN-C", make |-> s_Chevy, model |-> s_camaro, year |-> 2021,
        trim |-> "LT" ] }

\* the cars_master table of the batch runs: two trims of one model, and one
\* vehicle of another make
BatchCatalog ==
    WithIds(<< [ make |-> s_Chevrolet, model |-> s_Camaro, year |-> 2020, trim |-> "LT" ],
               [ make |-> s_Chevrolet, model |-> s_Camaro, year |-> 2020, trim |-> "SS" ],
               [ make |-> s_BMW, model |-> s_X3, year |-> 2020, trim |-> "M40i" ] >>)

MaxListings == 2

\* car_listings tables of up to MaxListings listings, each unmatched or
\* matched by an earlier run to a row of table
ListingTables(table) ==
    LET refs == { NoneInt } \cup { r.id : r \in Range(table) }
        rows(s, m) ==
            [ i \in DOMAIN s |->
                [ id |-> i, vin |-> s[i].vin, make |-> s[i].make, model |-> s[i].model,
                  year |-> s[i].year, trim |-> s[i].trim, master_car_id |-> m[i] ] ]
    IN  UNION { { rows(s, m) :
                    s \in { t \in [ 1..n -> ListingPool ] :
                              \A i, j \in 1..n : t[i].vin = t[j].vin => i = j },
                    m \in [ 1..n -> refs ] } :
                n \in 0..MaxListings }

\* --threshold, --batch-size (default 500), --force-rematch
BatchThresholds == { << 4, 5 >> }
BatchSizes == { 1, 500 }

InitBatch ==
    /\ cars_master = BatchCatalog
    /\ query = None
    /\ calls = <<>>
    /\ car_listings \in ListingTables(BatchCatalog)
    /\ session = <<>>
    /\ run = IdleBatch
    /\ cars = <<>>
    /\ user_intent = None
    /\ searches = <<>>

\* a run that selects every listing, whatever force_rematch says
StartRun_selects_all(threshold, batch_size, force_rematch) ==
    /\ run.pc = "idle"
    /\ \E listings \in Orderings({ l.id : l \in Range(car_listings) }) :
           run' = [ pc |-> "loop", threshold |-> threshold, batch_size |-> batch_size,
                    force_rematch |-> force_rematch, before |-> car_listings,
                    listings |-> listings, total |-> Len(listings), i |-> 0,
                    matched |-> 0, unmatched |-> 0, high_confidence |-> 0,
                    low_confidence |-> 0, returned |-> <<>> ]
    /\ session' = car_listings
    /\ UNCHANGED << cars_master, query, calls, car_listings, cars, user_intent, searches >>

\* normalize_listings up to its loop: a new session, and the listings to
\* process, selected without ORDER BY
StartRun(threshold, batch_size, force_rematch) ==
    /\ run.pc = "idle"
    /\ \E listings \in Orderings({ l.id : l \in
                          { x \in Range(car_listings) :
                              force_rematch \/ x.master_car_id = NoneInt } }) :
           run' = [ pc |-> "loop", threshold |-> threshold, batch_size |-> batch_size,
                    force_rematch |-> force_rematch, before |-> car_listings,
                    listings |-> listings, total |-> Len(listings), i |-> 0,
                    matched |-> 0, unmatched |-> 0, high_confidence |-> 0,
                    low_confidence |-> 0, returned |-> <<>> ]
    /\ session' = car_listings
    /\ UNCHANGED << cars_master, query, calls, car_listings, cars, user_intent, searches >>

\* one iteration of the loop in which find_master_car returns: returned keeps
\* what it returned for listings[i]
ResolveListing ==
    /\ run.pc = "loop"
    /\ run.i < run.total
    /\ LET listing == session[run.listings[run.i + 1]]
       IN  \E r \in FindMasterCarRuns(cars_master, listing.make, listing.model,
                                      listing.year, run.threshold) :
               LET result == r.returned.result
                   high == result # None /\ RatLe(<< 9, 10 >>, result[2])
               IN  /\ session' =
                          [ session EXCEPT ![listing.id].master_car_id =
                              IF result # None THEN result[1] ELSE NoneInt ]
                   /\ run' =
                          [ run EXCEPT
                              !.i = @ + 1,
                              !.matched = IF result # None THEN @ + 1 ELSE @,
                              !.unmatched = IF result # None THEN @ ELSE @ + 1,
                              !.high_confidence = IF high THEN @ + 1 ELSE @,
                              !.low_confidence =
                                  IF result # None /\ ~high THEN @ + 1 ELSE @,
                              !.returned = Append(@, r.returned) ]
                   \* session.commit() every batch_size listings
                   /\ car_listings' =
                          IF (run.i + 1) % run.batch_size = 0
                          THEN session' ELSE car_listings
    /\ UNCHANGED << cars_master, query, calls, cars, user_intent, searches >>

\* one iteration of the loop in which a session.execute of find_master_car
\* raises: the except clause rolls the session back and raises again
ResolveRaises ==
    /\ run.pc = "loop"
    /\ run.i < run.total
    /\ run' = [ run EXCEPT !.pc = "raised" ]
    /\ session' = car_listings
    /\ UNCHANGED << cars_master, query, calls, car_listings, cars, user_intent, searches >>

\* after the loop: the final session.commit()
FinishRun ==
    /\ run.pc = "loop"
    /\ run.i = run.total
    /\ car_listings' = session
    /\ run' = [ run EXCEPT !.pc = "done" ]
    /\ UNCHANGED << cars_master, query, calls, session, cars, user_intent, searches >>

NextBatch ==
    \/ \E threshold \in BatchThresholds, batch_size \in BatchSizes,
          force_rematch \in BOOLEAN :
           StartRun(threshold, batch_size, force_rematch)
    \/ ResolveListing
    \/ ResolveRaises
    \/ FinishRun

SpecBatch == InitBatch /\ [][NextBatch]_vars

(***************************************************************************)
(* Properties of normalize_listings, under SpecBatch                      *)
(***************************************************************************)
RunOver == run.pc \in { "done", "raised" }
\* the vehicle reference a returned value stands for
Reference(returned) ==
    IF returned.result = None THEN NoneInt ELSE returned.result[1]

\* C6: a failure while resolving one listing does not abort the batch: every
\* other listing selected for the run is still resolved and its result
\* persisted.  (The listing whose resolution raised is listings[i].)
C6_FailureDoesNotAbortBatch ==
    RunOver =>
        \A n \in 1..run.total :
            (run.pc = "raised" /\ n = run.i + 1)
            \/ /\ n <= Len(run.returned)
               /\ car_listings[run.listings[n]].master_car_id
                      = Reference(run.returned[n])

\* C7: after batch resolution of a listing, its record carries the matched
\* vehicle id (a null reference for no match) and, in a column of its own, the
\* confidence of the result find_master_car returned for it.
C7_IdAndConfidencePersisted ==
    run.pc = "done" =>
        \A n \in 1..run.total :
            LET row == car_listings[run.listings[n]]
                returned == run.returned[n]
            IN  /\ row.master_car_id = Reference(returned)
                /\ returned.result # None =>
                       \E column \in DOMAIN row \ CarListingColumns :
                           row[column] = returned.result[2]


\* C22: a batch resolution run without force_rematch re-resolves only
\* listings whose vehicle reference is null: every listing that had a
\* non-null reference before the run has the same reference during and after
\* it; a run with force_rematch re-resolves every listing; the catalog is
\* never modified by either mode.
C22_OnlyUnmatchedReresolved ==
    /\ cars_master = BatchCatalog
    /\ run.pc # "idle" =>
           /\ DOMAIN car_listings = DOMAIN run.before
           /\ Range(run.listings) =
                  { i \in DOMAIN run.before :
                      run.force_rematch \/ run.before[i].master_car_id = NoneInt }
           /\ ~run.force_rematch =>
                  \A i \in DOMAIN run.before :
                      run.before[i].master_car_id # NoneInt =>
                          /\ car_listings[i] = run.before[i]
                          /\ session[i] = run.before[i]
           /\ run.pc = "done" => Len(run.returned) = run.total

\* a finished run without force_rematch over a matched and an unmatched
\* listing: the first keeps its reference, the second gets one
C22_Witness ==
    /\ run.pc = "done"
    /\ ~run.force_rematch
    /\ \E i, j \in DOMAIN run.before :
           /\ run.before[i].master_car_id # NoneInt
           /\ car_listings[i].master_car_id = run.before[i].master_car_id
           /\ FindMasterCarRuns(cars_master, run.before[i].make, run.before[i].model,
                                run.before[i].year, run.threshold)
                  = { r \in FindMasterCarRuns(cars_master, run.before[i].make,
                                              run.before[i].model, run.before[i].year,
                                              run.threshold) :
                        Reference(r.returned) # run.before[i].master_car_id }
           /\ run.before[j].master_car_id = NoneInt
           /\ car_listings[j].master_car_id # NoneInt
(***************************************************************************)
(* ScoringEngine: the tables                                               *)
(***************************************************************************)
\* tags and words as str
t_fun == <<"f", "u", "n">>
t_exciting == <<"e", "x", "c", "i", "t", "i", "n", "g">>
t_sporty == <<"s", "p", "o", "r", "t", "y">>
t_sophisticated == <<"s", "o", "p", "h", "i", "s", "t", "i", "c", "a", "t", "e", "d">>
t_reliable == <<"r", "e", "l", "i", "a", "b", "l", "e">>
t_comfortable == <<"c", "o", "m", "f", "o", "r", "t", "a", "b", "l", "e">>
t_boring == <<"b", "o", "r", "i", "n", "g">>
t_luxury == <<"l", "u", "x", "u", "r", "y">>
t_sport == <<"s", "p", "o", "r", "t">>
t_Fun == <<"F", "u", "n">>
t_Sporty == <<"S", "p", "o", "r", "t", "y">>
t_AWD == <<"A", "W", "D">>
t_awd == <<"a", "w", "d">>
t_RWD == <<"R", "W", "D">>
t_sedan == <<"s", "e", "d", "a", "n">>
t_Sedan == <<"S", "e", "d", "a", "n">>
t_coupe == <<"c", "o", "u", "p", "e">>
t_liftback == <<"l", "i", "f", "t", "b", "a", "c", "k">>
t_convertible == <<"c", "o", "n", "v", "e", "r", "t", "i", "b", "l", "e">>
t_hatchback == <<"h", "a", "t", "c", "h", "b", "a", "c", "k">>
t_hot_hatch == <<"h", "o", "t", "-", "h", "a", "t", "c", "h">>
t_suv == <<"s", "u", "v">>
t_crossover == <<"c", "r", "o", "s", "s", "o", "v", "e", "r">>

EMOTIONAL_SIMILARITIES ==
    { << t_fun,
         { t_exciting,
           t_sporty,
           <<"e", "n", "g", "a", "g", "i", "n", "g">>,
           <<"p", "l", "a", "y", "f", "u", "l">>,
           <<"t", "h", "r", "i", "l", "l", "i", "n", "g">> } >>,
      << t_exciting,
         { t_fun,
           <<"a", "g", "g", "r", "e", "s", "s", "i", "v", "e">>,
           <<"p", "o", "w", "e", "r", "f", "u", "l">>,
           <<"t", "h", "r", "i", "l", "l", "i", "n", "g">>,
           <<"p", "a", "s", "s", "i", "o", "n", "a", "t", "e">> } >>,
      << <<"a", "g", "g", "r", "e", "s", "s", "i", "v", "e">>,
         { t_exciting,
           <<"p", "o", "w", "e", "r", "f", "u", "l">>,
           <<"b", "o", "l", "d">>,
           <<"m", "e", "a", "n">> } >>,
      << t_sporty,
         { t_fun,
           <<"e", "n", "g", "a", "g", "i", "n", "g">>,
           <<"a", "t", "h", "l", "e", "t", "i", "c">>,
           <<"d", "y", "n", "a", "m", "i", "c">> } >>,
      << <<"l", "u", "x", "u", "r", "i", "o", "u", "s">>,
         { t_sophisticated,
           <<"p", "r", "e", "m", "i", "u", "m">>,
           <<"r", "e", "f", "i", "n", "e", "d">>,
           <<"p", "r", "e", "s", "t", "i", "g", "i", "o", "u", "s">>,
           <<"c", "l", "a", "s", "s", "y">> } >>,
      << t_sophisticated,
         { <<"l", "u", "x", "u", "r", "i", "o", "u", "s">>,
           <<"r", "e", "f", "i", "n", "e", "d">>,
           <<"e", "l", "e", "g", "a", "n", "t">>,
           <<"c", "l", "a", "s", "s", "y">> } >>,
      << t_reliable,
         { <<"d", "e", "p", "e", "n", "d", "a", "b", "l", "e">>,
           <<"t", "r", "u", "s", "t", "w", "o", "r", "t", "h", "y">>,
           <<"s", "e", "n", "s", "i", "b", "l", "e">> } >>,
      << <<"p", "r", "a", "c", "t", "i", "c", "a", "l">>,
         { <<"s", "e", "n", "s", "i", "b", "l", "e">>,
           <<"u", "s", "e", "f", "u", "l">>,
           <<"v", "a", "l", "u", "e">> } >>,
      << t_comfortable,
         { <<"s", "m", "o", "o", "t", "h">>,
           <<"r", "e", "f", "i", "n", "e", "d">>,
           <<"r", "e", "l", "a", "x", "i", "n", "g">> } >>,
      << <<"v", "a", "l", "u", "e">>,
         { <<"p", "r", "a", "c", "t", "i", "c", "a", "l">>,
           <<"s", "e", "n", "s", "i", "b", "l", "e">>,
           <<"s", "u", "r", "p", "r", "i", "s", "i", "n", "g">> } >>,
      << <<"f", "a", "s", "t">>,
         { <<"p", "o", "w", "e", "r", "f", "u", "l">>,
           <<"q", "u", "i", "c", "k">>,
           t_exciting } >>,
      << <<"u", "n", "i", "q", "u", "e">>,
         { <<"s", "p", "e", "c", "i", "a", "l">>,
           <<"p", "a", "s", "s", "i", "o", "n", "a", "t", "e">>,
           <<"d", "i", "s", "t", "i", "n", "c", "t", "i", "v", "e">> } >> }

DRIVING_FEEL_TO_EMOTION ==
    { << t_sporty, { t_fun, t_exciting, t_sporty } >>,
      << <<"r", "e", "s", "p", "o", "n", "s", "i", "v", "e">>,
         { t_fun,
           <<"e", "n", "g", "a", "g", "i", "n", "g">>,
           t_sporty } >>,
      << <<"e", "n", "g", "a", "g", "i", "n", "g">>, { t_fun, t_exciting, t_sporty } >>,
      << <<"r", "a", "w">>,
         { t_exciting,
           <<"p", "a", "s", "s", "i", "o", "n", "a", "t", "e">>,
           <<"a", "g", "g", "r", "e", "s", "s", "i", "v", "e">> } >>,
      << <<"s", "h", "a", "r", "p">>,
         { t_sporty,
           <<"e", "n", "g", "a", "g", "i", "n", "g">>,
           t_exciting } >>,
      << <<"r", "e", "f", "i", "n", "e", "d">>,
         { t_sophisticated,
           <<"l", "u", "x", "u", "r", "i", "o", "u", "s">>,
           t_comfortable } >>,
      << <<"s", "m", "o", "o", "t", "h">>,
         { t_comfortable,
           <<"l", "u", "x", "u", "r", "i", "o", "u", "s">>,
           <<"r", "e", "f", "i", "n", "e", "d">> } >>,
      << <<"c", "o", "m", "p", "o", "s", "e", "d">>,
         { t_reliable,
           t_sophisticated,
           t_comfortable } >>,
      << <<"p", "o", "w", "e", "r", "f", "u", "l">>,
         { <<"f", "a", "s", "t">>,
           t_exciting,
           <<"a", "g", "g", "r", "e", "s", "s", "i", "v", "e">> } >>,
      << <<"b", "a", "l", "a", "n", "c", "e", "d">>,
         { <<"p", "r", "a", "c", "t", "i", "c", "a", "l">>,
           t_reliable,
           t_sporty } >>,
      << t_comfortable,
         { t_comfortable,
           <<"p", "r", "a", "c", "t", "i", "c", "a", "l">>,
           t_reliable } >>,
      << <<"p", "l", "a", "n", "t", "e", "d">>, { t_reliable, t_sophisticated, t_sporty } >>,
      << <<"p", "r", "e", "c", "i", "s", "e">>,
         { t_sporty,
           <<"e", "n", "g", "a", "g", "i", "n", "g">>,
           t_sophisticated } >>,
      << <<"i", "n", "s", "t", "a", "n", "t">>,
         { <<"f", "a", "s", "t">>,
           t_exciting,
           <<"m", "o", "d", "e", "r", "n">> } >>,
      << <<"q", "u", "i", "e", "t">>,
         { t_comfortable,
           <<"l", "u", "x", "u", "r", "i", "o", "u", "s">>,
           <<"r", "e", "f", "i", "n", "e", "d">> } >>,
      << <<"p", "l", "a", "y", "f", "u", "l">>, { t_fun, t_exciting, t_sporty } >>,
      << <<"d", "i", "r", "e", "c", "t">>,
         { <<"e", "n", "g", "a", "g", "i", "n", "g">>,
           t_sporty,
           <<"r", "a", "w">> } >> }

NEGATIVE_OPPOSITES ==
    { << t_boring,
         { t_fun,
           t_exciting,
           <<"e", "n", "g", "a", "g", "i", "n", "g">>,
           t_sporty,
           <<"a", "g", "g", "r", "e", "s", "s", "i", "v", "e">> } >>,
      << <<"s", "l", "o", "w">>,
         { <<"f", "a", "s", "t">>,
           <<"p", "o", "w", "e", "r", "f", "u", "l">>,
           t_exciting } >>,
      << <<"u", "n", "r", "e", "l", "i", "a", "b", "l", "e">>,
         { t_reliable,
           <<"d", "e", "p", "e", "n", "d", "a", "b", "l", "e">> } >>,
      << <<"e", "x", "p", "e", "n", "s", "i", "v", "e">>,
         { <<"v", "a", "l", "u", "e">>,
           <<"p", "r", "a", "c", "t", "i", "c", "a", "l">> } >>,
      << <<"u", "n", "c", "o", "m", "f", "o", "r", "t", "a", "b", "l", "e">>,
         { t_comfortable,
           <<"l", "u", "x", "u", "r", "i", "o", "u", "s">>,
           <<"r", "e", "f", "i", "n", "e", "d">> } >>,
      << <<"n", "u", "m", "b">>,
         { <<"e", "n", "g", "a", "g", "i", "n", "g">>,
           <<"r", "a", "w">>,
           t_sporty } >> }

CLASS_TO_EMOTION ==
    { << t_luxury,
         { <<"l", "u", "x", "u", "r", "i", "o", "u", "s">>,
           t_sophisticated,
           <<"p", "r", "e", "m", "i", "u", "m">> } >>,
      << <<"p", "e", "r", "f", "o", "r", "m", "a", "n", "c", "e">>,
         { t_exciting,
           <<"f", "a", "s", "t">>,
           t_fun } >>,
      << t_sport, { t_sporty, t_fun, <<"e", "n", "g", "a", "g", "i", "n", "g">> } >> }
(***************************************************************************)
(* ScoringEngine: the factor scorers.  A scorer returns its score in       *)
(* points with a reason and a tradeoff; a text is a tuple of its fixed     *)
(* wording and the values printed in it, and None when there is none.      *)
(***************************************************************************)
Abs(x) == IF x < 0 THEN -x ELSE x
Min(x, y) == IF x <= y THEN x ELSE y
Max(x, y) == IF x >= y THEN x ELSE y

\* a price scorer that gives 100 from a headroom of exactly 20%
_score_price_headroom_inclusive(car, intent) ==
    IF intent.budget_max = NoneInt \/ intent.budget_max = 0
    THEN << 80, None, None >>
    ELSE IF car.avg_price <= intent.budget_max
    THEN IF 5 * (intent.budget_max - car.avg_price) >= intent.budget_max
         THEN << 100, << "Well under budget at", car.avg_price >>, None >>
         ELSE << 95, << "Fits your budget nicely", intent.budget_max >>, None >>
    ELSE IF 10 * (car.avg_price - intent.budget_max) < intent.budget_max
    THEN << 75, None, << "Slightly over budget", car.avg_price >> >>
    ELSE IF 5 * (car.avg_price - intent.budget_max) < intent.budget_max
    THEN << 50, None, << "Above budget at", car.avg_price >> >>
    ELSE << 20, None, << "Significantly over budget at", car.avg_price >> >>

\* budget is falsy when it is None or 0
_score_price(car, intent) ==
    IF intent.budget_max = NoneInt \/ intent.budget_max = 0
    THEN << 80, None, None >>
    ELSE LET avg_price == car.avg_price
             budget == intent.budget_max
         IN  IF avg_price <= budget
             THEN \* headroom = (budget - avg_price) / budget > 0.2
                  IF 5 * (budget - avg_price) > budget
                  THEN << 100, << "Well under budget at", avg_price >>, None >>
                  ELSE << 95, << "Fits your budget nicely", budget >>, None >>
             ELSE \* over_percent = (avg_price - budget) / budget < 0.1, < 0.2
                  IF 10 * (avg_price - budget) < budget
                  THEN << 75, None, << "Slightly over budget", avg_price >> >>
                  ELSE IF 5 * (avg_price - budget) < budget
                  THEN << 50, None, << "Above budget at", avg_price >> >>
                  ELSE << 20, None, << "Significantly over budget at", avg_price >> >>

\* <<perf_tier, base_score>> of a 0-60 time in tenths of a second
PerformanceTier(zero_sixty) ==
    IF zero_sixty <= 45 THEN << "excellent", 100 >>
    ELSE IF zero_sixty <= 50 THEN << "great", 85 >>
    ELSE IF zero_sixty <= 55 THEN << "good", 70 >>
    ELSE IF zero_sixty <= 60 THEN << "decent", 55 >>
    ELSE << "moderate", 40 >>

_score_performance(car, intent) ==
    LET perf_priority == intent.performance_priority
        zero_sixty == car.zero_to_sixty
        perf_tier == PerformanceTier(zero_sixty)[1]
        base_score == PerformanceTier(zero_sixty)[2]
    IN  IF perf_priority > 70
        THEN IF perf_tier \in { "excellent", "great" }
             THEN << base_score, << "Seriously quick", zero_sixty >>, None >>
             ELSE << base_score, None, << "Not the quickest", zero_sixty >> >>
        ELSE IF perf_priority < 40
        THEN << Max(base_score, 70), None, None >>
        ELSE IF perf_tier \in { "excellent", "great" }
        THEN << base_score, << "provides plenty of power", car.power_hp >>, None >>
        ELSE << base_score, None, None >>

\* rel_score is in tenths, so rel_score * 10 in points is rel_score itself
_score_reliability(car, intent) ==
    LET rel_priority == intent.reliability_priority
        rel_score == car.reliability_score
        base_score == rel_score
    IN  IF rel_priority > 70
        THEN IF rel_score >= 80
             THEN << base_score, << "Excellent reliability record" >>, None >>
             ELSE IF rel_score >= 70
             THEN << base_score, << "Good reliability reputation" >>, None >>
             ELSE << base_score, None, << "Reliability could be a concern", rel_score >> >>
        ELSE IF rel_priority < 40
        THEN << Max(base_score, 60), None, None >>
        ELSE IF rel_score >= 80
        THEN << base_score, << "Known for being dependable" >>, None >>
        ELSE << base_score, None, None >>

\* _score_drivetrain that scores every mismatch 60, without the AWD branch
_score_drivetrain_mismatch_60(car, intent) ==
    IF intent.drivetrain = <<>>
    THEN << 80, None, None >>
    ELSE IF upper(car.drivetrain) = upper(intent.drivetrain)
    THEN << 100, << "as requested", car.drivetrain >>, None >>
    ELSE << 60, None, << "instead of", car.drivetrain, intent.drivetrain >> >>

_score_drivetrain(car, intent) ==
    IF intent.drivetrain = <<>>
    THEN << 80, None, None >>
    ELSE IF upper(car.drivetrain) = upper(intent.drivetrain)
    THEN << 100, << "as requested", car.drivetrain >>, None >>
    ELSE IF upper(intent.drivetrain) = t_AWD /\ upper(car.drivetrain) # t_AWD
    THEN << 40, None, << "Only available in", car.drivetrain >> >>
    ELSE << 60, None, << "instead of", car.drivetrain, intent.drivetrain >> >>

similar_groups ==
    { { t_sedan, t_liftback },
      { t_coupe, t_convertible },
      { t_hatchback, t_liftback, t_hot_hatch },
      { t_suv, t_crossover } }

_score_body_style(car, intent) ==
    IF intent.body_style = <<>> THEN 80
    ELSE LET car_body == lower(car.body_type)
             pref_body == lower(intent.body_style)
         IN  IF car_body = pref_body THEN 100
             ELSE IF \E group \in similar_groups : car_body \in group /\ pref_body \in group
             THEN 80
             ELSE 50

\* the 0-10 rating taken for a fraction: cost_score * 100
_score_ownership_cost_times_100(car, intent) == car.ownership_cost_score * 10

\* rating in tenths: cost_score * 10 in points
_score_ownership_cost(car, intent) == car.ownership_cost_score

\* a text that may be None, as the list of the texts there are
Opt(text) == IF text = None THEN <<>> ELSE << text >>

\* the car's emotional profile: its emotional tags, the emotions of its
\* driving feel and those of its class tags
car_emotions(car) ==
    { lower(car.emotional_tags[i]) : i \in DOMAIN car.emotional_tags }
    \cup UNION { Lookup(DRIVING_FEEL_TO_EMOTION, feel_lower) :
                   feel_lower \in { f \in { lower(car.driving_feel_tags[i]) :
                                              i \in DOMAIN car.driving_feel_tags } :
                                      InTable(DRIVING_FEEL_TO_EMOTION, f) } }
    \cup UNION { Lookup(CLASS_TO_EMOTION, class_lower) :
                   class_lower \in { c \in { lower(car.class_tags[i]) :
                                               i \in DOMAIN car.class_tags } :
                                       InTable(CLASS_TO_EMOTION, c) } }

\* the loop over intent.emotional_tags: <<positive_score, positive_matches>>
RECURSIVE WantedLoop(_, _, _, _)
WantedLoop(wanted, emotions, positive_score, positive_matches) ==
    IF wanted = <<>> THEN << positive_score, positive_matches >>
    ELSE LET wanted_tag == Head(wanted)
             wanted_lower == lower(wanted_tag)
         IN  IF wanted_lower \in emotions
             THEN WantedLoop(Tail(wanted), emotions, positive_score + 20,
                             Append(positive_matches, wanted_tag))
             ELSE IF /\ InTable(EMOTIONAL_SIMILARITIES, wanted_lower)
                     /\ emotions \cap Lookup(EMOTIONAL_SIMILARITIES, wanted_lower) # {}
             THEN WantedLoop(Tail(wanted), emotions, positive_score + 12,
                             Append(positive_matches, wanted_tag))
             ELSE WantedLoop(Tail(wanted), emotions, positive_score, positive_matches)

\* the loop over intent.negative_tags:
\* <<negative_penalty, positive_score, reasons, tradeoffs>>
RECURSIVE AvoidLoop(_, _, _, _, _, _)
AvoidLoop(avoid, emotions, negative_penalty, positive_score, reasons, tradeoffs) ==
    IF avoid = <<>> THEN << negative_penalty, positive_score, reasons, tradeoffs >>
    ELSE LET avoid_lower == lower(Head(avoid))
         IN  IF avoid_lower \in emotions
             THEN AvoidLoop(Tail(avoid), emotions, negative_penalty + 25, positive_score,
                            reasons, Append(tradeoffs, << "May feel", avoid_lower >>))
             ELSE IF /\ InTable(NEGATIVE_OPPOSITES, avoid_lower)
                     /\ emotions \cap Lookup(NEGATIVE_OPPOSITES, avoid_lower) # {}
             THEN AvoidLoop(Tail(avoid), emotions, negative_penalty, positive_score + 10,
                            Append(reasons, << "Definitely not", avoid_lower >>), tradeoffs)
             ELSE AvoidLoop(Tail(avoid), emotions, negative_penalty, positive_score,
                            reasons, tradeoffs)

\* the reason added when some wanted tag matched
Vibe(positive_matches) ==
    IF positive_matches # <<>>
    THEN << << "Matches your vibe",
               SubSeq(positive_matches, 1, Min(3, Len(positive_matches))) >> >>
    ELSE <<>>

\* the end of _score_emotional without the penalty of the avoided tags
EmotionalResult_no_penalty(intent, negative) ==
    IF intent.emotional_tags = <<>> /\ intent.negative_tags = <<>>
    THEN << 70, negative[3], negative[4] >>
    ELSE << Max(0, Min(100, 50 + Min(negative[2], 50))), negative[3], negative[4] >>

\* the end of _score_emotional, from what the second loop leaves:
\* <<negative_penalty, positive_score, reasons, tradeoffs>>
EmotionalResult(intent, negative) ==
    LET negative_penalty == negative[1]
        positive_score == negative[2]
        reasons == negative[3]
        tradeoffs == negative[4]
        final_score == 50 + Min(positive_score, 50) - Min(negative_penalty, 40)
    IN  IF intent.emotional_tags = <<>> /\ intent.negative_tags = <<>>
        THEN << 70, reasons, tradeoffs >>
        ELSE << Max(0, Min(100, final_score)), reasons, tradeoffs >>

\* _score_emotional from the end of its first loop on:
\* positive is <<positive_score, positive_matches>>
EmotionalAfterWanted(intent, emotions, positive) ==
    The({ EmotionalResult(intent, negative) :
            negative \in { AvoidLoop(intent.negative_tags, emotions, 0, positive[1],
                                     Vibe(positive[2]), <<>>) } })

\* _score_emotional for a car of the given emotional profile
EmotionalOfProfile(intent, emotions) ==
    The({ EmotionalAfterWanted(intent, emotions, positive) :
            positive \in { WantedLoop(intent.emotional_tags, emotions, 0, <<>>) } })

\* <<score, reasons, tradeoffs>>; the car's profile is built once
_score_emotional(car, intent) ==
    The({ EmotionalOfProfile(intent, emotions) : emotions \in { car_emotions(car) } })

\* <<score, reason>>; the 0-60 times are in tenths of a second
_score_reference_similarity(car, reference) ==
    LET power_diff == Abs(car.power_hp - reference.power_hp)
        zero_diff == Abs(car.zero_to_sixty - reference.zero_to_sixty)
        price_diff == Abs(car.avg_price - reference.avg_price)
        common_classes == Range(car.class_tags) \cap Range(reference.class_tags)
        common_emotions == Range(car.emotional_tags) \cap Range(reference.emotional_tags)
        score ==
            (IF car.drivetrain = reference.drivetrain THEN 15 ELSE 0)
            \* power_diff / reference.power_hp < 0.1, < 0.2, < 0.3
            + (IF 10 * power_diff < reference.power_hp THEN 20
               ELSE IF 10 * power_diff < 2 * reference.power_hp THEN 12
               ELSE IF 10 * power_diff < 3 * reference.power_hp THEN 5 ELSE 0)
            + (IF zero_diff < 3 THEN 15
               ELSE IF zero_diff < 6 THEN 10
               ELSE IF zero_diff < 10 THEN 5 ELSE 0)
            + (IF car.body_type = reference.body_type THEN 15 ELSE 0)
            + (IF 10 * price_diff < reference.avg_price THEN 15
               ELSE IF 10 * price_diff < 2 * reference.avg_price THEN 10
               ELSE IF 10 * price_diff < 3 * reference.avg_price THEN 5 ELSE 0)
            + Cardinality(common_classes) * 10
            + Cardinality(common_emotions) * 5
        final_score == Min(100, score)
    IN  << final_score,
           IF final_score > 70
           THEN << "Very similar to the", reference.make, reference.model >>
           ELSE IF final_score > 50
           THEN << "Comparable to the", reference.make, reference.model >>
           ELSE None >>

(***************************************************************************)
(* ScoringEngine: the weights, in ten-thousandths                          *)
(***************************************************************************)
\* base weights that sum to 1.05: emotional 0.25
BaseWeights_emotional_25 ==
    [ price |-> 2000, performance |-> 1500, reliability |-> 1500, drivetrain |-> 1000,
      body_style |-> 1000, emotional |-> 2500, ownership |-> 1000 ]

BaseWeights ==
    [ price |-> 2000, performance |-> 1500, reliability |-> 1500, drivetrain |-> 1000,
      body_style |-> 1000, emotional |-> 2000, ownership |-> 1000 ]

RECURSIVE SumOver(_, _)
SumOver(f, keys) ==
    IF keys = {} THEN 0
    ELSE LET k == CHOOSE x \in keys : TRUE IN f[k] + SumOver(f, keys \ { k })

\* the weights dict before the priority overrides: with a reference score,
\* the reference weight and the other weights times 0.85
ReferenceWeights(scores, has_reference) ==
    IF has_reference /\ "reference" \in DOMAIN scores
    THEN [ key \in DOMAIN BaseWeights \cup { "reference" } |->
             IF key = "reference" THEN 1500
             ELSE (BaseWeights[key] * 85) \div 100 ]
    ELSE BaseWeights

\* overrides that start at a priority of exactly 0.7
Weights_from_70(scores, intent, has_reference) ==
    LET referenced == ReferenceWeights(scores, has_reference)
        performance ==
            IF intent.performance_priority >= 70
            THEN [ referenced EXCEPT !.performance = 2500, !.emotional = 1500 ]
            ELSE referenced
        reliability ==
            IF intent.reliability_priority >= 70
            THEN [ performance EXCEPT !.reliability = 2200, !.ownership = 1500 ]
            ELSE performance
    IN  IF intent.drivetrain # <<>>
        THEN [ reliability EXCEPT !.drivetrain = 1500 ]
        ELSE reliability

\* the weights dict after the reference weight and the priority overrides
Weights(scores, intent, has_reference) ==
    LET referenced == ReferenceWeights(scores, has_reference)
        performance ==
            IF intent.performance_priority > 70
            THEN [ referenced EXCEPT !.performance = 2500, !.emotional = 1500 ]
            ELSE referenced
        reliability ==
            IF intent.reliability_priority > 70
            THEN [ performance EXCEPT !.reliability = 2200, !.ownership = 1500 ]
            ELSE performance
    IN  IF intent.drivetrain # <<>>
        THEN [ reliability EXCEPT !.drivetrain = 1500 ]
        ELSE reliability

\* weighted_sum and total_weight over the scores present; a score without a
\* weight counts with 0.1 in the sum and with 0 in the total
WeightedSum(scores, weights) ==
    SumOver([ k \in DOMAIN scores |->
                scores[k] * (IF k \in DOMAIN weights THEN weights[k] ELSE 1000) ],
            DOMAIN scores)
TotalWeight(scores, weights) ==
    SumOver([ k \in DOMAIN scores |-> IF k \in DOMAIN weights THEN weights[k] ELSE 0 ],
            DOMAIN scores)

\* The final score in ten-thousandths of a point.  The code returns
\* (weighted_sum / total_weight) * total_weight: the division by total_weight
\* is undone by the multiplication, and what is returned is weighted_sum.
_calculate_weighted_score(scores, intent, has_reference) ==
    The({ IF TotalWeight(scores, weights) > 0
          THEN WeightedSum(scores, weights)
          ELSE 50 * 10000 :
            weights \in { Weights(scores, intent, has_reference) } })

(***************************************************************************)
(* ScoringEngine._score_car and score_all_cars                             *)
(***************************************************************************)
\* seq[-n:], the last n instead of the first
Take_last(seq, n) == SubSeq(seq, Len(seq) - Min(n, Len(seq)) + 1, Len(seq))
\* seq[:n]
Take(seq, n) == SubSeq(seq, 1, Min(n, Len(seq)))

\* What _score_car returns from the scorers' results.  score is the final
\* score in ten-thousandths of a point; scores, the dict of factor scores, is
\* kept beside the tuple the code returns.
ScoreCarResult(intent, reference_car, referenced, price, perf, rel, drive, body_score, emo, ref, cost_score) ==
    LET always == [ price |-> price[1], performance |-> perf[1], reliability |-> rel[1],
                    drivetrain |-> drive[1], body_style |-> body_score,
                    emotional |-> emo[1], ownership |-> cost_score ]
        scores == IF referenced
                  THEN [ price |-> price[1], performance |-> perf[1],
                         reliability |-> rel[1], drivetrain |-> drive[1],
                         body_style |-> body_score, emotional |-> emo[1],
                         reference |-> ref[1], ownership |-> cost_score ]
                  ELSE always
        reasons == Opt(price[2]) \o Opt(perf[2]) \o Opt(rel[2]) \o Opt(drive[2])
                   \o emo[2] \o Opt(ref[2])
        tradeoffs == Opt(price[3]) \o Opt(perf[3]) \o Opt(rel[3]) \o Opt(drive[3])
                     \o emo[3]
    IN  [ score |-> _calculate_weighted_score(scores, intent, reference_car # None),
          reasons |-> Take(reasons, 4),
          tradeoffs |-> Take(tradeoffs, 3),
          scores |-> scores ]

\* every scorer is called once, the reference scorer only for a reference
\* car that is another car
_score_car(car, intent, reference_car) ==
    The({ ScoreCarResult(intent, reference_car, referenced, price, perf, rel, drive,
                         body_score, emo, ref, cost_score) :
            referenced \in { reference_car # None /\ car.id # reference_car.id },
            price \in { _score_price(car, intent) },
            perf \in { _score_performance(car, intent) },
            rel \in { _score_reliability(car, intent) },
            drive \in { _score_drivetrain(car, intent) },
            body_score \in { _score_body_style(car, intent) },
            emo \in { _score_emotional(car, intent) },
            ref \in { IF reference_car # None /\ car.id # reference_car.id
                      THEN _score_reference_similarity(car, reference_car)
                      ELSE << 0, None >> },
            cost_score \in { _score_ownership_cost(car, intent) } })

\* str(n) for n >= 0
DigitChars == << "0", "1", "2", "3", "4", "5", "6", "7", "8", "9" >>
RECURSIVE str(_)
str(n) == IF n < 10 THEN << DigitChars[n + 1] >>
          ELSE str(n \div 10) \o << DigitChars[(n % 10) + 1] >>

\* the score of one car in find_reference_car's loop
ReferenceScore(car, reference, reference_lower) ==
    (IF Contains(reference_lower, lower(car.make)) THEN 3 ELSE 0)
    + (IF Contains(reference_lower, lower(car.model)) THEN 3 ELSE 0)
    + (IF Contains(reference, str(car.year)) THEN 2 ELSE 0)
    + (IF Contains(reference_lower, lower(car.trim)) THEN 1 ELSE 0)

\* CarDatabase.find_reference_car: the loop, then the bar of 4
RECURSIVE ReferenceLoop(_, _, _, _, _)
ReferenceLoop(rest, reference, reference_lower, best_match, best_score) ==
    IF rest = <<>> THEN << best_match, best_score >>
    ELSE \* the car's score, computed once
         The({ IF score > best_score
               THEN ReferenceLoop(Tail(rest), reference, reference_lower, Head(rest), score)
               ELSE ReferenceLoop(Tail(rest), reference, reference_lower, best_match,
                                  best_score) :
                 score \in { ReferenceScore(Head(rest), reference, reference_lower) } })

\* a lookup without the bar of 4: the best match, however weak
find_reference_car_no_bar(catalog, reference) ==
    IF reference = <<>> THEN None
    ELSE ReferenceLoop(catalog, reference, lower(reference), None, 0)[1]

find_reference_car(catalog, reference) ==
    IF reference = <<>> THEN None
    ELSE The({ IF best[2] >= 4 THEN best[1] ELSE None :
                 best \in { ReferenceLoop(catalog, reference, lower(reference), None, 0) } })

\* round(score, 1) in tenths of a point, for a score in ten-thousandths.  The
\* score is a binary float a few ulps from the exact sum: when the exact sum
\* lies halfway between two tenths the float lies on either side of it, and
\* round() goes either way.
round(score) ==
    LET tenths == score \div 1000
        rest == score % 1000
    IN  IF rest < 500 THEN { tenths }
        ELSE IF rest > 500 THEN { tenths + 1 }
        ELSE { tenths, tenths + 1 }

\* the MatchResult lists score_all_cars can build from the scored cars,
\* before the sort (listings, which the scoring does not read, are left out)
RECURSIVE MatchResults(_, _)
MatchResults(catalog, scored) ==
    IF catalog = <<>> THEN { <<>> }
    ELSE { << [ car |-> Head(catalog), match_score |-> m,
                match_reasons |-> Head(scored).reasons,
                tradeoffs |-> Head(scored).tradeoffs ] >> \o rest :
             m \in round(Head(scored).score),
             rest \in MatchResults(Tail(catalog), Tail(scored)) }

\* results.sort(key=lambda x: x.match_score, reverse=True): list.sort is
\* stable, also with reverse=True
RECURSIVE InsertByScore(_, _)
InsertByScore(sorted, x) ==
    IF sorted = <<>> THEN << x >>
    ELSE IF Head(sorted).match_score >= x.match_score
    THEN << Head(sorted) >> \o InsertByScore(Tail(sorted), x)
    ELSE << x >> \o sorted
\* a sort that is not stable: cars with one score come out in reverse order
RECURSIVE InsertBeforeEqual(_, _)
InsertBeforeEqual(sorted, x) ==
    IF sorted = <<>> THEN << x >>
    ELSE IF Head(sorted).match_score > x.match_score
    THEN << Head(sorted) >> \o InsertBeforeEqual(Tail(sorted), x)
    ELSE << x >> \o sorted
RECURSIVE sort_unstable(_)
sort_unstable(results) ==
    IF results = <<>> THEN <<>>
    ELSE InsertBeforeEqual(sort_unstable(SubSeq(results, 1, Len(results) - 1)),
                           results[Len(results)])

\* score_all_cars without the sort: the results in catalog order
sort_missing(results) == results

RECURSIVE sort(_)
sort(results) ==
    IF results = <<>> THEN <<>>
    ELSE InsertByScore(sort(SubSeq(results, 1, Len(results) - 1)), results[Len(results)])

\* for car in cars: self._score_car(car, intent, reference_car)
RECURSIVE ScoreEach(_, _, _)
ScoreEach(catalog, it, reference_car) ==
    IF catalog = <<>> THEN <<>>
    ELSE << _score_car(Head(catalog), it, reference_car) >>
         \o ScoreEach(Tail(catalog), it, reference_car)

\* What one score_all_cars(intent) computes before rounding: the reference
\* car is looked up once, then every car is scored
Scored(catalog, it) ==
    The({ [ intent |-> it,
            reference_car |-> reference_car,
            scored |-> ScoreEach(catalog, it, reference_car) ] :
            reference_car \in { IF it.reference_car # <<>>
                                THEN find_reference_car(catalog, it.reference_car)
                                ELSE None } })

\* Every way one call score_all_cars(intent) can go: the returned list, with
\* the intent, the reference car found and what _score_car returned per car
ScoreAllCarsRuns(catalog, it) ==
    UNION { { [ intent |-> s.intent, reference_car |-> s.reference_car,
                scored |-> s.scored, results |-> sort(unsorted) ] :
                unsorted \in MatchResults(catalog, s.scored) } :
            s \in { Scored(catalog, it) } }

(***************************************************************************)
(* The search: a catalog and the calls score_all_cars(intent) of a session *)
(* that changes the performance priority between calls.  Prices in         *)
(* dollars, ratings and 0-60 times in tenths, priorities in hundredths.    *)
(***************************************************************************)
s_Audi == <<"A", "u", "d", "i">>
s_S4 == <<"S", "4">>
s_Premium_Plus == <<"P", "r", "e", "m", "i", "u", "m", " ", "P", "l", "u", "s">>
s_M340i == <<"M", "3", "4", "0", "i">>
s_SS == <<"S", "S">>
s_Tesla == <<"T", "e", "s", "l", "a">>
s_Model_3 == <<"M", "o", "d", "e", "l", " ", "3">>
s_Long_Range == <<"L", "o", "n", "g", " ", "R", "a", "n", "g", "e">>
s_Audi_S4 == <<"A", "u", "d", "i", " ", "S", "4">>
s_Planted == <<"P", "l", "a", "n", "t", "e", "d">>
s_Quiet == <<"Q", "u", "i", "e", "t">>

CarPool ==
    { [ id |-> "audi-s4-2018", make |-> s_Audi, model |-> s_S4, year |-> 2018,
        trim |-> s_Premium_Plus, avg_price |-> 32000, power_hp |-> 349,
        drivetrain |-> t_AWD, body_type |-> t_sedan, reliability_score |-> 75,
        ownership_cost_score |-> 70, driving_feel_tags |-> << s_Planted >>,
        class_tags |-> << t_luxury >>, emotional_tags |-> << t_sophisticated >>,
        zero_to_sixty |-> 48 ],
      [ id |-> "bmw-m340i-2018", make |-> s_BMW, model |-> s_M340i, year |-> 2018,
        trim |-> s_Premium_Plus, avg_price |-> 40000, power_hp |-> 349,
        drivetrain |-> t_RWD, body_type |-> t_sedan, reliability_score |-> 75,
        ownership_cost_score |-> 70, driving_feel_tags |-> << s_Planted >>,
        class_tags |-> << t_luxury >>, emotional_tags |-> << t_sophisticated >>,
        zero_to_sixty |-> 40 ],
      [ id |-> "chevrolet-camaro-2020", make |-> s_Chevrolet, model |-> s_Camaro,
        year |-> 2020, trim |-> s_SS, avg_price |-> 38000, power_hp |-> 455,
        drivetrain |-> t_RWD, body_type |-> t_coupe, reliability_score |-> 40,
        ownership_cost_score |-> 95, driving_feel_tags |-> << t_Sporty >>,
        class_tags |-> << t_sport >>, emotional_tags |-> << t_fun, t_exciting >>,
        zero_to_sixty |-> 39 ],
      [ id |-> "tesla-model-3-2020", make |-> s_Tesla, model |-> s_Model_3,
        year |-> 2020, trim |-> s_Long_Range, avg_price |-> 30000, power_hp |-> 346,
        drivetrain |-> t_AWD, body_type |-> t_Sedan, reliability_score |-> 100,
        ownership_cost_score |-> 100, driving_feel_tags |-> << s_Quiet >>,
        class_tags |-> <<>>, emotional_tags |-> << t_comfortable, t_reliable >>,
        zero_to_sixty |-> 44 ],
      [ id |-> "tesla-model-3-2021", make |-> s_Tesla, model |-> s_Model_3,
        year |-> 2021, trim |-> s_Long_Range, avg_price |-> 30000, power_hp |-> 346,
        drivetrain |-> t_AWD, body_type |-> t_Sedan, reliability_score |-> 100,
        ownership_cost_score |-> 100, driving_feel_tags |-> << s_Quiet >>,
        class_tags |-> <<>>, emotional_tags |-> << t_comfortable, t_reliable >>,
        zero_to_sixty |-> 44 ] }

MaxCars == 2

\* cars.json: a list of cars with distinct ids
CarCatalogs ==
    UNION { { t \in [ 1..n -> CarPool ] : \A i, j \in 1..n : t[i] = t[j] => i = j } :
            n \in 0..MaxCars }

\* The UserIntent fields the scoring reads.  performance_priority starts at
\* the default 0.5.
Intents ==
    { [ budget_max |-> budget_max, drivetrain |-> drivetrain, body_style |-> body_style,
        emotional_tags |-> tags[1], negative_tags |-> tags[2],
        performance_priority |-> 50, reliability_priority |-> reliability_priority,
        reference_car |-> reference ] :
        budget_max \in { NoneInt, 35000 },
        drivetrain \in { <<>>, t_awd },
        body_style \in { <<>>, t_sedan },
        tags \in { << <<>>, <<>> >>,
                   << << t_Fun, t_exciting, t_sporty >>, <<>> >>,
                   << << t_Fun, t_exciting, t_sporty >>, << t_boring >> >> },
        reliability_priority \in { 50, 90 },
        reference \in { <<>>, s_Audi_S4, s_Tesla } }

PerformancePriorities == { 30, 50, 80, 90 }

InitScore ==
    /\ cars_master = <<>>
    /\ query = None
    /\ calls = <<>>
    /\ car_listings = <<>>
    /\ session = <<>>
    /\ run = IdleBatch
    /\ cars \in CarCatalogs
    /\ user_intent \in Intents
    /\ searches = <<>>

\* one search: the session's intent with the given performance priority,
\* then scoring_engine.score_all_cars(intent) over db.get_all_cars()
ScoreAllCars(performance_priority) ==
    /\ user_intent' = [ user_intent EXCEPT !.performance_priority = performance_priority ]
    /\ \E r \in ScoreAllCarsRuns(cars, user_intent') :
           searches' = << r >>
    /\ UNCHANGED << cars_master, query, calls, car_listings, session, run, cars >>

NextScore == \E performance_priority \in PerformancePriorities :
                 ScoreAllCars(performance_priority)

SpecScore == InitScore /\ [][NextScore]_vars

(***************************************************************************)
(* Properties of the scoring and the ranking                               *)
(***************************************************************************)
\* the position of a car in a ranked output
Position(results, id) == CHOOSE i \in DOMAIN results : results[i].car.id = id
\* round() had one outcome for every score of the search
Settled(search) == \A j \in DOMAIN search.scored : search.scored[j].score % 1000 # 500

\* C1: for every vehicle and every intent, the aggregate match score that
\* _score_car returns, and the rounded one score_all_cars returns, lie in
\* [0,100], whatever priority overrides, drivetrain request and reference
\* vehicle are in force.
C1_AggregateInRange ==
    \A s \in Range(searches) :
        /\ \A j \in DOMAIN s.scored :
               s.scored[j].score >= 0 /\ s.scored[j].score <= 100 * 10000
        /\ \A j \in DOMAIN s.results : s.results[j].match_score \in 0..1000

\* C8: the aggregate score of a vehicle is the weighted average of the
\* factor scores present for it, sum(score_k * weight_k) / sum(weight_k):
\* aggregate * sum(weight_k) = sum(score_k * weight_k).  The aggregate is in
\* ten-thousandths; both sides are divided by 625, which the weights (all
\* multiples of 0.0025) let divide exactly.
C8_WeightedAverage ==
    \A s \in Range(searches) : \A j \in DOMAIN s.scored :
        \A weights \in { Weights(s.scored[j].scores, s.intent, s.reference_car # None) } :
            (s.scored[j].score \div 25) * (TotalWeight(s.scored[j].scores, weights) \div 25)
                = 400 * (WeightedSum(s.scored[j].scores, weights) \div 25)

\* C9: for a fixed catalog and intent, changing only performance_priority
\* from 0.5 to 0.9 never moves the vehicle with the lowest 0-60 time to a
\* later position in the ranked output.  Stated for searches whose scores
\* round one way only, where the rank does not hang on a rounding.
C9_FastestNeverDrops ==
    [][ \A f \in DOMAIN cars :
          ( /\ searches # <<>>
            /\ searches[1].intent.performance_priority = 50
            /\ searches'[1].intent.performance_priority = 90
            /\ Settled(searches[1]) /\ Settled(searches'[1])
            /\ \A g \in DOMAIN cars \ { f } :
                   cars[f].zero_to_sixty < cars[g].zero_to_sixty )
          => Position(searches'[1].results, cars[f].id)
                 <= Position(searches[1].results, cars[f].id) ]_vars

\* C10: the ranked output holds every car of the catalog once, sorted by
\* descending aggregate score, and the sort is stable: two vehicles with
\* identical aggregate scores appear in their catalog order.
C10_SortedStable ==
    \A s \in Range(searches) :
        /\ Len(s.results) = Len(cars)
        /\ \A c \in DOMAIN cars : \E i \in DOMAIN s.results : s.results[i].car = cars[c]
        /\ \A i, j \in DOMAIN s.results :
               i < j =>
                   /\ s.results[i].match_score >= s.results[j].match_score
                   /\ s.results[i].match_score = s.results[j].match_score
                      => \E a, b \in DOMAIN cars :
                             /\ a < b
                             /\ cars[a] = s.results[i].car
                             /\ cars[b] = s.results[j].car

\* two cars with the same score in a ranked output, the Model 3 of 2021
\* before the Model 3 of 2020 as in the catalog
C10_Witness ==
    \E s \in Range(searches) :
        /\ Len(s.results) = 2
        /\ s.results[1].match_score = s.results[2].match_score
        /\ s.results[1].car.id = "tesla-model-3-2021"
        /\ s.results[1].car = cars[1]


(***************************************************************************)
(* The scenario of the specification: budget 35000, AWD wanted,            *)
(* performance priority 0.8, the $32,000 AWD car against the $40,000 RWD   *)
(* car                                                                     *)
(***************************************************************************)
\* the search ran the scenario intent over a catalog holding both cars
Scenario(s) ==
    /\ s.intent.budget_max = 35000
    /\ upper(s.intent.drivetrain) = t_AWD
    /\ s.intent.performance_priority = 80
    /\ \E a, b \in DOMAIN cars :
           /\ cars[a].id = "audi-s4-2018"
           /\ cars[b].id = "bmw-m340i-2018"
\* the factor scores of a car of the search; scored[j] is what _score_car
\* returned for the j-th car of the catalog
FactorScores(s, id) == The({ s.scored[j].scores : j \in { j \in DOMAIN cars : cars[j].id = id } })

\* C11: in the scenario the AWD car's price score is in 95-100 and its
\* drivetrain score is 100; the RWD car's drivetrain score is 60 and its
\* price score is at most 50.
C11_ScenarioFactorScores ==
    \A s \in Range(searches) :
        Scenario(s) =>
            /\ FactorScores(s, "audi-s4-2018").price \in 95..100
            /\ FactorScores(s, "audi-s4-2018").drivetrain = 100
            /\ FactorScores(s, "bmw-m340i-2018").drivetrain = 60
            /\ FactorScores(s, "bmw-m340i-2018").price <= 50

\* C11, amended: the RWD car's drivetrain score is 40, the score of a car
\* that is not AWD when AWD is wanted; the other three scores are as stated.
C11_ScenarioFactorScoresAmended ==
    \A s \in Range(searches) :
        Scenario(s) =>
            /\ FactorScores(s, "audi-s4-2018").price \in 95..100
            /\ FactorScores(s, "audi-s4-2018").drivetrain = 100
            /\ FactorScores(s, "bmw-m340i-2018").drivetrain = 40
            /\ FactorScores(s, "bmw-m340i-2018").price <= 50

\* the scenario was scored
C11_Witness ==
    \E s \in Range(searches) : Scenario(s) /\ Len(s.scored) = 2

\* C12: in the same scenario score_all_cars ranks the AWD car above the RWD
\* car, whatever the order of the two cars in the catalog.
C12_AwdRanksAboveRwd ==
    \A s \in Range(searches) :
        Scenario(s) =>
            Position(s.results, "audi-s4-2018") < Position(s.results, "bmw-m340i-2018")

\* the scenario was ranked over a catalog that lists the RWD car first
C12_Witness ==
    \E s \in Range(searches) :
        /\ Scenario(s)
        /\ cars[1].id = "bmw-m340i-2018"
        /\ s.results[1].car.id = "audi-s4-2018"
        /\ s.results[1].match_score > s.results[2].match_score

\* C16: for every vehicle and intent, with the vehicle's reliability and
\* ownership-cost ratings in [0,10], each factor score computed in
\* _score_car (price, performance, reliability, drivetrain, body style,
\* emotional, reference similarity when there is one, ownership cost) lies
\* in [0,100].
C16_FactorScoresInRange ==
    \A s \in Range(searches) : \A j \in DOMAIN s.scored :
        /\ { "price", "performance", "reliability", "drivetrain", "body_style",
             "emotional", "ownership" } \subseteq DOMAIN s.scored[j].scores
        /\ DOMAIN s.scored[j].scores \subseteq
               { "price", "performance", "reliability", "drivetrain", "body_style",
                 "emotional", "ownership", "reference" }
        /\ \A k \in DOMAIN s.scored[j].scores : s.scored[j].scores[k] \in 0..100

\* a car scored on all eight factors, with ratings of 10 out of 10 and the
\* top score on four factors
C16_Witness ==
    \E s \in Range(searches) : \E j \in DOMAIN s.scored :
        /\ "reference" \in DOMAIN s.scored[j].scores
        /\ cars[j].reliability_score = 100
        /\ cars[j].ownership_cost_score = 100
        /\ s.scored[j].scores.reliability = 100
        /\ s.scored[j].scores.ownership = 100
        /\ s.scored[j].scores.price = 95
        /\ s.scored[j].scores.drivetrain = 100
        /\ s.scored[j].scores.body_style = 100

\* C21: when the intent names a reference vehicle that find_reference_car
\* cannot resolve (best match score below 4), score_all_cars raises no
\* error, no vehicle receives a reference-similarity score or reason, and
\* every vehicle's aggregate is computed with the unscaled base weights,
\* exactly as if no reference had been named.
C21_UnresolvedReferenceIgnored ==
    \A s \in Range(searches) :
        ( /\ s.intent.reference_car # <<>>
          /\ ReferenceLoop(cars, s.intent.reference_car, lower(s.intent.reference_car),
                           None, 0)[2] < 4 )
        => \A unnamed \in { Scored(cars, [ s.intent EXCEPT !.reference_car = <<>> ]) } :
               /\ s.reference_car = None
               /\ Len(s.scored) = Len(cars)
               /\ Len(s.results) = Len(cars)
               /\ s.scored = unnamed.scored
               /\ \A j \in DOMAIN s.scored :
                      /\ "reference" \notin DOMAIN s.scored[j].scores
                      /\ \A i \in DOMAIN s.scored[j].reasons :
                             s.scored[j].reasons[i][1]
                                 \notin { "Very similar to the", "Comparable to the" }
                      /\ s.scored[j].score
                             = WeightedSum(s.scored[j].scores,
                                           Weights(s.scored[j].scores, s.intent, FALSE))
                      /\ \A k \in { "price", "body_style" } :
                             Weights(s.scored[j].scores, s.intent, FALSE)[k] = BaseWeights[k]

\* "Tesla" over a catalog of two Teslas: the make alone scores 3, below the
\* bar of 4, and both cars are scored and ranked
C21_Witness ==
    \E s \in Range(searches) :
        /\ s.intent.reference_car = s_Tesla
        /\ Len(cars) = 2
        /\ \A j \in DOMAIN cars : cars[j].make = s_Tesla
        /\ ReferenceLoop(cars, s_Tesla, lower(s_Tesla), None, 0)[2] = 3
        /\ s.reference_car = None
        /\ Len(s.results) = 2

\* C23: in the ranked output of score_all_cars, a vehicle whose computed
\* (unrounded) aggregate score is strictly greater than another vehicle's
\* always appears before that other vehicle, regardless of their catalog
\* order.
C23_GreaterScoreRanksFirst ==
    \A s \in Range(searches) : \A a, b \in DOMAIN cars :
        s.scored[a].score > s.scored[b].score
        => Position(s.results, cars[a].id) < Position(s.results, cars[b].id)

(***************************************************************************)
(* The scorers and helpers called on their own: query holds the arguments  *)
(* of one call, calls the call once it is made.  No table is read.         *)
(***************************************************************************)
NoTables ==
    /\ cars_master = <<>>
    /\ car_listings = <<>>
    /\ session = <<>>
    /\ run = IdleBatch
    /\ cars = <<>>
    /\ user_intent = None
    /\ searches = <<>>

\* the call under study is made: calls holds its arguments and its result
Call(returned) ==
    /\ calls = <<>>
    /\ calls' = << [ args |-> query, returned |-> returned ] >>
    /\ UNCHANGED << cars_master, query, car_listings, session, run, cars, user_intent, searches >>

(***************************************************************************)
(* _score_emotional(car, intent)                                           *)
(***************************************************************************)
\* the tag lists of the car and of the intent that _score_emotional reads
EmotionalQueries ==
    [ car : [ emotional_tags : { <<>>, << t_boring >>, << title(t_boring), t_reliable >>,
                                 << t_fun, t_exciting, t_sporty >>,
                                 << t_boring, t_comfortable, t_reliable >> },
              driving_feel_tags : { <<>>, << t_Sporty >> },
              class_tags : { <<>>, << t_luxury >> } ],
      intent : [ emotional_tags : { <<>>, << t_Fun >>, << t_Fun, t_exciting, t_sporty >>,
                                    << t_sophisticated >> },
                 negative_tags : { <<>>, << t_boring >>, << title(t_boring) >>,
                                   << t_boring, t_comfortable >>,
                                   << t_boring, t_comfortable, t_reliable >> } ] ]

InitEmotional == query \in EmotionalQueries /\ calls = <<>> /\ NoTables

ScoreEmotional == Call(_score_emotional(query.car, query.intent))

SpecEmotional == InitEmotional /\ [][ScoreEmotional]_vars

\* C13: for every vehicle and every intent with a negative tag that the
\* vehicle's derived emotional profile contains, the emotional scorer emits
\* a tradeoff naming that tag and returns clamp(50 + min(positive, 50) -
\* min(negative, 40), 0, 100), which is at most 50 - 25 + the positive
\* contributions; with no emotional and no negative tags the score is 70.
\* positive is 20 per wanted tag in the profile, 12 per wanted tag with a
\* similar tag in the profile and 10 per avoided tag whose opposite is in
\* the profile; negative is 25 per avoided tag in the profile.
C13_NegativeTagInProfile ==
    \A c \in Range(calls) :
        LET wanted == c.args.intent.emotional_tags
            avoid == c.args.intent.negative_tags
            emotions == car_emotions(c.args.car)
            direct == { i \in DOMAIN wanted : lower(wanted[i]) \in emotions }
            near == { i \in DOMAIN wanted \ direct :
                        /\ InTable(EMOTIONAL_SIMILARITIES, lower(wanted[i]))
                        /\ emotions \cap Lookup(EMOTIONAL_SIMILARITIES, lower(wanted[i])) # {} }
            present == { i \in DOMAIN avoid : lower(avoid[i]) \in emotions }
            opposite == { i \in DOMAIN avoid \ present :
                            /\ InTable(NEGATIVE_OPPOSITES, lower(avoid[i]))
                            /\ emotions \cap Lookup(NEGATIVE_OPPOSITES, lower(avoid[i])) # {} }
            positive == 20 * Cardinality(direct) + 12 * Cardinality(near)
                        + 10 * Cardinality(opposite)
            negative == 25 * Cardinality(present)
        IN  /\ \A i \in present :
                   \E k \in DOMAIN c.returned[3] :
                       c.returned[3][k] = << "May feel", lower(avoid[i]) >>
            /\ present # {} =>
                   /\ c.returned[1] = Max(0, Min(100, 50 + Min(positive, 50) - Min(negative, 40)))
                   /\ c.returned[1] <= 50 - 25 + positive
            /\ wanted = <<>> /\ avoid = <<>> => c.returned[1] = 70

\* a car whose profile holds two of the three avoided tags, written in
\* another case, and a wanted tag: both tradeoffs, penalty capped at 40
C13_Witness ==
    \E c \in Range(calls) :
        /\ c.args.car.emotional_tags = << title(t_boring), t_reliable >>
        /\ c.args.car.driving_feel_tags = << t_Sporty >>
        /\ c.args.intent.negative_tags = << t_boring, t_comfortable, t_reliable >>
        /\ c.args.intent.emotional_tags = << t_Fun >>
        /\ Len(c.returned[3]) = 2
        /\ c.returned[1] < 50

(***************************************************************************)
(* similarity_score(s1, s2)                                                *)
(***************************************************************************)
\* makes and models as listings and catalogs write them, the empty string
\* and a blank
SimilarityStrings ==
    { <<>>, << " " >>, s_Camaro, s_camaro, s_Camaro_SS, s_Malibu, s_X3, s_X5, s_bmw, s_BMW,
      s_Chevy, s_Chevrolet }

InitSimilarity == query \in [ s1 : SimilarityStrings, s2 : SimilarityStrings ] /\ calls = <<>> /\ NoTables

SimilarityScore == Call(similarity_score(query.s1, query.s2))

SpecSimilarity == InitSimilarity /\ [][SimilarityScore]_vars

\* C14: for every input string a, similarity_score(a, a) = 1.
C14_SelfSimilarityIsOne ==
    \A c \in Range(calls) :
        c.args.s1 = c.args.s2 => RatEq(c.returned, << 1, 1 >>)

\* C14, amended: for every input string a that is not empty,
\* similarity_score(a, a) = 1; for the empty string it is 0.
C14_SelfSimilarityIsOneAmended ==
    \A c \in Range(calls) :
        c.args.s1 = c.args.s2 =>
            IF c.args.s1 = <<>> THEN RatEq(c.returned, << 0, 1 >>)
            ELSE RatEq(c.returned, << 1, 1 >>)

\* a string of several words compared with itself
C14_Witness ==
    \E c \in Range(calls) :
        /\ c.args.s1 = s_Camaro_SS
        /\ c.args.s2 = s_Camaro_SS
        /\ RatEq(c.returned, << 1, 1 >>)

(***************************************************************************)
(* _score_price(car, intent)                                               *)
(***************************************************************************)
\* prices on both sides of every limit of a budget of 35000 (20% headroom
\* at 28000, the budget, 10% over at 38500, 20% over at 42000), and small
\* prices for the small budgets
Prices ==
    { 4, 5, 6, 8, 11, 12, 27999, 28000, 28001, 32000, 35000, 35001, 38499, 38500, 38501,
      40000, 41999, 42000, 42001 }

\* no budget, the budget 0 that counts as none, and budgets
Budgets == { NoneInt, 0, 5, 10, 35000 }

InitPrice == query \in [ car : [ avg_price : Prices ], intent : [ budget_max : Budgets ] ] /\ calls = <<>> /\ NoTables

ScorePrice == Call(_score_price(query.car, query.intent))

SpecPrice == InitPrice /\ [][ScorePrice]_vars

\* C17: the price scorer follows the table for every price and budget: no
\* budget stated gives 80; a price at or under budget with headroom >= 20%
\* of the budget gives 100 and with less headroom gives 95; a price over
\* budget by < 10% gives 75, by < 20% gives 50, and by >= 20% gives 20.
C17_PriceTable ==
    \A c \in Range(calls) :
        LET price == c.args.car.avg_price
            budget == c.args.intent.budget_max
            score == c.returned[1]
        IN  IF budget = NoneInt \/ budget = 0 THEN score = 80
            ELSE IF price <= budget
            THEN IF 100 * (budget - price) >= 20 * budget THEN score = 100 ELSE score = 95
            ELSE IF 100 * (price - budget) < 10 * budget THEN score = 75
            ELSE IF 100 * (price - budget) < 20 * budget THEN score = 50
            ELSE score = 20

\* C17, amended: as C17, but the score is 100 only with headroom above 20%
\* of the budget; a headroom of exactly 20% gives 95.
C17_PriceTableAmended ==
    \A c \in Range(calls) :
        LET price == c.args.car.avg_price
            budget == c.args.intent.budget_max
            score == c.returned[1]
        IN  IF budget = NoneInt \/ budget = 0 THEN score = 80
            ELSE IF price <= budget
            THEN IF 100 * (budget - price) > 20 * budget THEN score = 100 ELSE score = 95
            ELSE IF 100 * (price - budget) < 10 * budget THEN score = 75
            ELSE IF 100 * (price - budget) < 20 * budget THEN score = 50
            ELSE score = 20

\* a price with a headroom of exactly 20% of the budget was scored
C17_Witness ==
    \E c \in Range(calls) :
        /\ c.args.intent.budget_max = 35000
        /\ c.args.car.avg_price = 28000
        /\ c.returned[1] = 95

(***************************************************************************)
(* _calculate_weighted_score(scores, intent, has_reference): its weights   *)
(***************************************************************************)
\* the scores of a car without and with a reference score, the priorities
\* below, at and above 0.7, a drivetrain wanted or not.  has_reference
\* without a reference score is the reference car itself; a reference
\* score is only computed when there is a reference car.
WeightQueries ==
    { q \in [ scores : { [ key \in DOMAIN BaseWeights |-> 60 ],
                         [ key \in DOMAIN BaseWeights \cup { "reference" } |-> 60 ] },
              intent : [ performance_priority : { 50, 70, 71, 90 },
                         reliability_priority : { 30, 70, 80 },
                         drivetrain : { <<>>, t_AWD } ],
              has_reference : BOOLEAN ] :
        "reference" \in DOMAIN q.scores => q.has_reference }

InitWeights == query \in WeightQueries /\ calls = <<>> /\ NoTables

\* the call, with the weights dict as it is before and after the overrides
CalculateWeightedScore ==
    Call([ before_overrides |-> ReferenceWeights(query.scores, query.has_reference),
           weights |-> Weights(query.scores, query.intent, query.has_reference),
           score |-> _calculate_weighted_score(query.scores, query.intent,
                                               query.has_reference) ])

SpecWeights == InitWeights /\ [][CalculateWeightedScore]_vars

\* C18: the weight vector used for a vehicle sums to 1.0 before priority
\* overrides are applied: the seven base weights sum to 1.0, and when a
\* reference score is present the reference weight 0.15 plus the seven base
\* weights scaled by 0.85 again sum to 1.0.  Weights in ten-thousandths.
C18_WeightsSumToOne ==
    \A c \in Range(calls) :
        LET weights == c.returned.before_overrides
        IN  /\ SumOver(weights, DOMAIN weights) = 10000
            /\ SumOver(BaseWeights, DOMAIN BaseWeights) = 10000
            /\ Cardinality(DOMAIN BaseWeights) = 7
            /\ IF "reference" \in DOMAIN c.args.scores
               THEN /\ DOMAIN weights = DOMAIN BaseWeights \cup { "reference" }
                    /\ weights.reference = 1500
                    /\ \A k \in DOMAIN BaseWeights : 100 * weights[k] = 85 * BaseWeights[k]
               ELSE weights = BaseWeights

\* the weights of a car with a reference score
C18_Witness ==
    \E c \in Range(calls) :
        /\ "reference" \in DOMAIN c.args.scores
        /\ c.returned.before_overrides.reference = 1500
        /\ c.returned.before_overrides.price = 1700
        /\ c.returned.before_overrides.performance = 1275

\* C19: priority overrides replace the weight of their keys with fixed
\* values, independently of each other and of the reference scaling:
\* performance priority > 0.7 sets performance to 0.25 and emotional to
\* 0.15; reliability priority > 0.7 sets reliability to 0.22 and ownership
\* to 0.15; a requested drivetrain sets drivetrain to 0.15; a priority of
\* exactly 0.7 triggers no override, and every key not named keeps its base
\* (or 0.85-scaled) weight.
C19_OverridesReplace ==
    \A c \in Range(calls) :
        LET before == c.returned.before_overrides
            weights == c.returned.weights
            performance == c.args.intent.performance_priority > 70
            reliability == c.args.intent.reliability_priority > 70
            drivetrain == c.args.intent.drivetrain # <<>>
        IN  /\ DOMAIN weights = DOMAIN before
            /\ weights.performance = IF performance THEN 2500 ELSE before.performance
            /\ weights.emotional = IF performance THEN 1500 ELSE before.emotional
            /\ weights.reliability = IF reliability THEN 2200 ELSE before.reliability
            /\ weights.ownership = IF reliability THEN 1500 ELSE before.ownership
            /\ weights.drivetrain = IF drivetrain THEN 1500 ELSE before.drivetrain
            /\ \A k \in DOMAIN weights \ { "performance", "emotional", "reliability",
                                          "ownership", "drivetrain" } :
                   weights[k] = before[k]

\* a performance priority of exactly 0.7 with a reliability priority above
\* it, a drivetrain wanted and a reference score: the performance and
\* emotional weights stay scaled, the other three are replaced
C19_Witness ==
    \E c \in Range(calls) :
        /\ c.args.intent.performance_priority = 70
        /\ c.args.intent.reliability_priority = 80
        /\ c.args.intent.drivetrain # <<>>
        /\ "reference" \in DOMAIN c.args.scores
        /\ c.returned.weights.performance = 1275
        /\ c.returned.weights.emotional = 1700
        /\ c.returned.weights.reliability = 2200
        /\ c.returned.weights.ownership = 1500
        /\ c.returned.weights.drivetrain = 1500

(***************************************************************************)
(* _score_car(car, intent, reference_car)                                  *)
(***************************************************************************)
\* a car over the budget, slow, unreliable, front-wheel driven and boring,
\* which draws a tradeoff from every scorer that has one
MalibuLT ==
    [ id |-> "chevrolet-malibu-2015", make |-> s_Chevrolet, model |-> s_Malibu,
      year |-> 2015, trim |-> <<"L", "T">>, avg_price |-> 45000, power_hp |-> 160,
      drivetrain |-> <<"F", "W", "D">>, body_type |-> t_hatchback, reliability_score |-> 40,
      ownership_cost_score |-> 50, driving_feel_tags |-> <<>>, class_tags |-> <<>>,
      emotional_tags |-> << t_boring, t_reliable >>, zero_to_sixty |-> 75 ]

\* the car, the intent with a default or a high performance priority, and
\* no reference car or the Audi
ScoreCarQueries ==
    [ car : CarPool \cup { MalibuLT },
      intent : { [ it EXCEPT !.performance_priority = performance_priority ] :
                   it \in Intents, performance_priority \in { 50, 90 } },
      reference_car : { None } \cup { car \in CarPool : car.id = "audi-s4-2018" } ]

InitScoreCar == query \in ScoreCarQueries /\ calls = <<>> /\ NoTables

ScoreCar == Call(_score_car(query.car, query.intent, query.reference_car))

SpecScoreCar == InitScoreCar /\ [][ScoreCar]_vars

\* C20: for every vehicle, the reasons of its result are the first 4 and
\* the tradeoffs the first 3 of the texts emitted by the scorers in the
\* fixed evaluation order price, performance, reliability, drivetrain,
\* emotional, reference similarity; so a result never has more than 4
\* reasons or more than 3 tradeoffs, and their relative order follows the
\* scorer order.
C20_ReasonsAndTradeoffsTruncated ==
    \A c \in Range(calls) :
        LET car == c.args.car
            it == c.args.intent
            reference_car == c.args.reference_car
            scalar == << _score_price(car, it), _score_performance(car, it),
                         _score_reliability(car, it), _score_drivetrain(car, it) >>
            emo == _score_emotional(car, it)
            ref == IF reference_car # None /\ car.id # reference_car.id
                   THEN Opt(_score_reference_similarity(car, reference_car)[2])
                   ELSE <<>>
            emitted(n) == Opt(scalar[1][n]) \o Opt(scalar[2][n]) \o Opt(scalar[3][n])
                          \o Opt(scalar[4][n]) \o emo[n]
            reasons == emitted(2) \o ref
            tradeoffs == emitted(3)
        IN  /\ Len(c.returned.reasons) = Min(4, Len(reasons))
            /\ \A i \in DOMAIN c.returned.reasons : c.returned.reasons[i] = reasons[i]
            /\ Len(c.returned.tradeoffs) = Min(3, Len(tradeoffs))
            /\ \A i \in DOMAIN c.returned.tradeoffs : c.returned.tradeoffs[i] = tradeoffs[i]

\* the car that draws five tradeoffs: the three kept are those of price,
\* performance and reliability
C20_Witness ==
    \E c \in Range(calls) :
        /\ c.args.car = MalibuLT
        /\ c.args.intent.drivetrain # <<>>
        /\ Len(_score_emotional(c.args.car, c.args.intent)[3]) = 1
        /\ c.returned.tradeoffs =
               << << "Significantly over budget at", 45000 >>,
                  << "Not the quickest", 75 >>,
                  << "Reliability could be a concern", 40 >> >>

\* C24: whenever a vehicle's derived emotional profile contains a tag listed
\* in the intent's negative_tags, the tradeoffs of that vehicle's result
\* contain the "May feel <tag>" warning, whatever price, performance,
\* reliability and drivetrain tradeoffs the vehicle also has.
C24_WarningAlwaysShown ==
    \A c \in Range(calls) :
        \A i \in DOMAIN c.args.intent.negative_tags :
            lower(c.args.intent.negative_tags[i]) \in car_emotions(c.args.car)
            => \E k \in DOMAIN c.returned.tradeoffs :
                   c.returned.tradeoffs[k]
                       = << "May feel", lower(c.args.intent.negative_tags[i]) >>

(***************************************************************************)
(* IntentEngine._refine_heuristic(current_intent, refinement).  Objects    *)
(* live in a heap, a sequence indexed by reference: a UserIntent is a      *)
(* record whose emotional_tags, negative_tags and usage are references to  *)
(* lists, so that a change made through one reference shows through every *)
(* other.  Budgets in dollars, priorities in hundredths.                   *)
(***************************************************************************)
\* the if / elif chain of _refine_heuristic, applied to the intent object
\* at new_intent: the heap it leaves
ApplyRefinement(heap, new_intent, refinement_lower) ==
    LET has(text) == Contains(refinement_lower, text)
        it == heap[new_intent]
        append(list, tag) ==
            IF tag \in Range(heap[list]) THEN heap
            ELSE [ heap EXCEPT ![list] = Append(@, tag) ]
    IN  IF has(<<"c", "h", "e", "a", "p", "e", "r">>) \/ has(<<"l", "e", "s", "s", " ", "e", "x", "p", "e", "n", "s", "i", "v", "e">>)
        THEN IF it.budget_max # NoneInt /\ it.budget_max # 0
             \* int(budget_max * 0.8): the product truncated
             THEN [ heap EXCEPT ![new_intent].budget_max = (4 * @) \div 5 ]
             ELSE heap
        ELSE IF has(<<"m", "o", "r", "e", " ", "r", "e", "l", "i", "a", "b", "l", "e">>) \/ has(t_reliable)
        THEN [ heap EXCEPT ![new_intent].reliability_priority = Min(100, @ + 25) ]
        ELSE IF has(<<"s", "p", "o", "r", "t", "i", "e", "r">>) \/ has(<<"m", "o", "r", "e", " ", "f", "u", "n">>)
        THEN [ append(it.emotional_tags, t_sporty)
                 EXCEPT ![new_intent].performance_priority = Min(100, @ + 20) ]
        ELSE IF has(<<"f", "a", "s", "t", "e", "r">>) \/ has(<<"m", "o", "r", "e", " ", "p", "o", "w", "e", "r">>)
        THEN [ append(it.emotional_tags, <<"f", "a", "s", "t">>)
                 EXCEPT ![new_intent].performance_priority = Min(100, @ + 25) ]
        ELSE IF has(<<"b", "i", "g", "g", "e", "r">>)
        THEN IF it.body_style = t_coupe
             THEN [ heap EXCEPT ![new_intent].body_style = t_sedan ]
             ELSE IF it.body_style = t_sedan
             THEN [ heap EXCEPT ![new_intent].body_style = t_suv ]
             ELSE heap
        ELSE IF has(<<"m", "o", "r", "e", " ", "p", "r", "a", "c", "t", "i", "c", "a", "l">>) \/ has(<<"p", "r", "a", "c", "t", "i", "c", "a", "l">>)
        THEN [ append(it.emotional_tags, <<"p", "r", "a", "c", "t", "i", "c", "a", "l">>)
                 EXCEPT ![new_intent].comfort_priority = Min(100, @ + 20) ]
        ELSE IF has(<<"m", "o", "r", "e", " ", "c", "o", "m", "f", "o", "r", "t", "a", "b", "l", "e">>)
        THEN [ heap EXCEPT ![new_intent].comfort_priority = Min(100, @ + 25) ]
        ELSE IF has(t_awd) \/ has(<<"a", "l", "l", " ", "w", "h", "e", "e", "l">>)
        THEN [ heap EXCEPT ![new_intent].drivetrain = t_AWD ]
        ELSE IF has(<<"s", "n", "o", "w">>) \/ has(<<"w", "i", "n", "t", "e", "r">>)
        THEN [ append(it.usage, <<"w", "i", "n", "t", "e", "r">>) EXCEPT ![new_intent].drivetrain = t_AWD ]
        ELSE IF has(<<"m", "o", "r", "e", " ", "l", "u", "x", "u", "r", "i", "o", "u", "s">>) \/ has(t_luxury)
        THEN append(it.emotional_tags, <<"l", "u", "x", "u", "r", "i", "o", "u", "s">>)
        ELSE heap

\* a refinement that changes the intent it is given, without the copy
_refine_heuristic_in_place(heap, current_intent, refinement) ==
    [ heap |-> ApplyRefinement(heap, current_intent, lower(refinement)),
      new_intent |-> current_intent ]

\* the heap after the call and the reference returned: UserIntent(...) with
\* list(...) of the three lists allocates three lists and one intent
_refine_heuristic(heap, current_intent, refinement) ==
    LET refinement_lower == lower(refinement)
        old == heap[current_intent]
        emotional_tags == Len(heap) + 1
        negative_tags == Len(heap) + 2
        usage == Len(heap) + 3
        new_intent == Len(heap) + 4
        copied == heap \o << heap[old.emotional_tags], heap[old.negative_tags],
                             heap[old.usage],
                             [ old EXCEPT !.emotional_tags = emotional_tags,
                                          !.negative_tags = negative_tags,
                                          !.usage = usage ] >>
    IN  [ heap |-> ApplyRefinement(copied, new_intent, refinement_lower),
          new_intent |-> new_intent ]

\* the instructions of the refinements, one or more per rule and one that
\* no rule knows
Refinements ==
    { <<"c", "h", "e", "a", "p", "e", "r">>,
      <<"M", "a", "k", "e", " ", "i", "t", " ", "C", "H", "E", "A", "P", "E", "R", " ", "a", "n", "d", " ", "s", "p", "o", "r", "t", "i", "e", "r">>,
      <<"s", "o", "m", "e", "t", "h", "i", "n", "g", " ", "l", "e", "s", "s", " ", "e", "x", "p", "e", "n", "s", "i", "v", "e">>,
      <<"m", "o", "r", "e", " ", "r", "e", "l", "i", "a", "b", "l", "e">>,
      <<"s", "p", "o", "r", "t", "i", "e", "r">>,
      <<"f", "a", "s", "t", "e", "r">>,
      <<"b", "i", "g", "g", "e", "r">>,
      <<"m", "o", "r", "e", " ", "p", "r", "a", "c", "t", "i", "c", "a", "l">>,
      <<"m", "o", "r", "e", " ", "c", "o", "m", "f", "o", "r", "t", "a", "b", "l", "e">>,
      <<"A", "W", "D", " ", "p", "l", "e", "a", "s", "e">>,
      <<"g", "o", "o", "d", " ", "i", "n", " ", "s", "n", "o", "w">>,
      <<"l", "u", "x", "u", "r", "y">>,
      <<"q", "u", "i", "e", "t", "e", "r">> }

\* the heap before the call: the three lists of the prior intent at 1, 2
\* and 3 and the prior intent at 4
RefineQueries ==
    { [ heap |-> << emotional_tags, << t_boring >>, usage,
                    [ budget_min |-> NoneInt, budget_max |-> budget_max,
                      performance_priority |-> performance_priority,
                      reliability_priority |-> 50, comfort_priority |-> 50,
                      drivetrain |-> drivetrain, body_style |-> body_style,
                      emotional_tags |-> 1, negative_tags |-> 2, reference_car |-> <<>>,
                      usage |-> 3, raw_query |-> "a fun sedan" ] >>,
        current_intent |-> 4,
        refinement |-> refinement ] :
        emotional_tags \in { <<>>, << t_sporty >> },
        usage \in { <<>>, << <<"w", "i", "n", "t", "e", "r">> >> },
        budget_max \in { NoneInt, 1, 33333, 35000 },
        performance_priority \in { 50, 90 },
        drivetrain \in { <<>>, t_RWD },
        body_style \in { <<>>, t_coupe },
        refinement \in Refinements }

InitRefine == query \in RefineQueries /\ calls = <<>> /\ NoTables

RefineHeuristic == Call(_refine_heuristic(query.heap, query.current_intent, query.refinement))

SpecRefine == InitRefine /\ [][RefineHeuristic]_vars

\* C15: heuristic refinement is pure: _refine_heuristic returns a new
\* UserIntent, with lists of its own, and leaves the prior intent and its
\* emotional_tags, negative_tags and usage lists unchanged; and for an
\* instruction containing "cheaper" the new budget_max is the prior
\* budget_max reduced by 20%, to the integer below (a budget that is not
\* set stays unset), with every other field equal to the prior intent's.
C15_RefinementIsPure ==
    \A c \in Range(calls) :
        LET before == c.args.heap
            after == c.returned.heap
            old == before[c.args.current_intent]
            new == after[c.returned.new_intent]
            lists == { "emotional_tags", "negative_tags", "usage" }
        IN  /\ c.returned.new_intent \notin DOMAIN before
            /\ \A l \in lists : new[l] \notin DOMAIN before
            /\ SubSeq(after, 1, Len(before)) = before
            /\ Contains(lower(c.args.refinement), <<"c", "h", "e", "a", "p", "e", "r">>) =>
                   /\ IF old.budget_max = NoneInt THEN new.budget_max = NoneInt
                      ELSE /\ 5 * new.budget_max <= 4 * old.budget_max
                           /\ 4 * old.budget_max < 5 * (new.budget_max + 1)
                   /\ \A l \in lists : after[new[l]] = before[old[l]]
                   /\ \A f \in DOMAIN old \ (lists \cup { "budget_max" }) : new[f] = old[f]

\* "Make it CHEAPER and sportier" on a budget of 33333: the new intent has
\* budget 26666 and nothing of the sportier rule
C15_Witness ==
    \E c \in Range(calls) :
        /\ Contains(c.args.refinement, <<"C", "H", "E", "A", "P", "E", "R", " ", "a", "n", "d", " ", "s", "p", "o", "r", "t", "i", "e", "r">>)
        /\ c.args.heap[4].budget_max = 33333
        /\ c.args.heap[1] = <<>>
        /\ c.returned.heap[c.returned.new_intent].budget_max = 26666
        /\ c.returned.heap[c.returned.heap[c.returned.new_intent].emotional_tags] = <<>>
        /\ c.returned.heap[4].budget_max = 33333

(***************************************************************************)
(* The refinement loop of search_cars: for refinement in                   *)
(* request.refinements: intent = intent_engine.refine_intent(intent,       *)
(* refinement), with no API key, so that refine_intent is                  *)
(* _refine_heuristic.  user_intent is the intent extract_intent returned,  *)
(* query the heap and the reference of the loop's intent, calls the        *)
(* instructions applied so far.                                            *)
(***************************************************************************)
MaxRefinements == 2

InitRefinements ==
    /\ query \in { [ heap |-> q.heap, current_intent |-> q.current_intent ] :
                       q \in { p \in RefineQueries : /\ p.heap[1] = <<>>
                                                     /\ p.heap[3] = <<>>
                                                     /\ p.heap[4].performance_priority = 50 } }
    /\ user_intent = query.heap[query.current_intent]
    /\ calls = <<>>
    /\ cars_master = <<>>
    /\ car_listings = <<>>
    /\ session = <<>>
    /\ run = IdleBatch
    /\ cars = <<>>
    /\ searches = <<>>

\* one turn of the loop; the prior intent and its lists are no longer
\* referenced after the assignment, and the heap keeps only the new
\* intent and its lists, again at 1, 2, 3 and 4
RefineIntent(refinement) ==
    /\ Len(calls) < MaxRefinements
    /\ LET r == _refine_heuristic(query.heap, query.current_intent, refinement)
           new == r.heap[r.new_intent]
       IN  query' = [ heap |-> << r.heap[new.emotional_tags], r.heap[new.negative_tags],
                                  r.heap[new.usage],
                                  [ new EXCEPT !.emotional_tags = 1, !.negative_tags = 2,
                                               !.usage = 3 ] >>,
                      current_intent |-> 4 ]
    /\ calls' = Append(calls, refinement)
    /\ UNCHANGED << cars_master, car_listings, session, run, cars, user_intent, searches >>

NextRefinements == \E refinement \in Refinements : RefineIntent(refinement)

SpecRefinements == InitRefinements /\ [][NextRefinements]_vars

\* C25: after any sequence of heuristic refinements of an intent whose
\* budget_max is a positive integer, budget_max is still a positive
\* integer, and _score_price applies the budget rules to the refined
\* intent: it never returns the no-budget neutral score 80.
C25_BudgetStaysPositive ==
    user_intent.budget_max > 0 =>
        LET intent == query.heap[query.current_intent]
        IN  /\ intent.budget_max > 0
            /\ \A avg_price \in Prices :
                   _score_price([ avg_price |-> avg_price ], intent)[1] # 80

(***************************************************************************)
(* normalize_make(s) and normalize_model(s), and each applied to its own   *)
(* result                                                                  *)
(***************************************************************************)
\* one word, or two words joined by a space, two spaces or a hyphen, with
\* or without a space before and after
NormalizeStrings ==
    LET firsts == { <<"c">>, <<"C">>, <<"m", "u", "s", "t", "a", "n", "g">>,
                    <<"l", "a", "n", "d">>, <<"C", "i", "v", "i", "c">> }
        seconds == { <<"c", "l", "a", "s", "s">>, <<"C", "L", "A", "S", "S">>, <<"g", "t">>,
                     <<"r", "o", "v", "e", "r">>, <<"S", "i">> }
        joints == { <<" ">>, <<" ", " ">>, <<"-">> }
        words == { <<>>, s_bmw, s_Chevy, s_X3, s_Camaro, <<"m", "i", "n", "i">>, <<"R", "A", "M">>,
                   <<"v", "w">>, <<"M", "c", "L", "a", "r", "e", "n">> }
                 \cup { a \o j \o b : a \in firsts, j \in joints, b \in seconds }
        pads == { <<>>, <<" ">> }
    IN  { lead \o word \o trail : lead \in pads, word \in words, trail \in pads }

InitNormalize == query \in NormalizeStrings /\ calls = <<>> /\ NoTables

Normalize == Call([ make |-> normalize_make(query), model |-> normalize_model(query) ])

SpecNormalize == InitNormalize /\ [][Normalize]_vars

\* C28: normalize_make and normalize_model are idempotent: for every
\* string s, normalize_make(normalize_make(s)) = normalize_make(s) and
\* normalize_model(normalize_model(s)) = normalize_model(s), inputs with
\* repeated inner whitespace included.
C28_NormalizeIdempotent ==
    \A c \in Range(calls) :
        /\ normalize_make(c.returned.make) = c.returned.make
        /\ normalize_model(c.returned.model) = c.returned.model

(***************************************************************************)
(* The ingestion run, ingestion.run.run(source_name).  query is the        *)
(* source's name and the payload its fetch() returned, cars the car_spec   *)
(* table (the payload car each row came from), session the listing table   *)
(* of the connection, run the local variables of the call.  Of a car       *)
(* record the model keeps its id and whether it has the make key           *)
(* normalize_car_spec reads (model, trim and year are read the same way);  *)
(* of a listing, its source, the id its source_listing_id comes from and   *)
(* its car_id; of a stored listing, its key, its car_spec_id and its       *)
(* status.                                                                 *)
(***************************************************************************)
MaxRecords == 2

\* a key the record does not have, or has with a value that is not truthy
Missing == ""

\* the payload of the source and the listing table before the run: rows of
\* earlier runs, ids by autoincrement, (source, source_listing_id) unique
InitIngest ==
    LET payload_cars ==
            { <<>>,
              << [ id |-> "c1", make |-> "Ford" ] >>,
              << [ id |-> "c1", make |-> "Ford" ], [ id |-> "c2", make |-> Missing ] >> }
        pool == { [ source |-> "mock", id |-> "L1", car_id |-> "c1" ],
                  [ source |-> "mock", id |-> "L2", car_id |-> "c1" ],
                  [ source |-> "mock", id |-> "L2", car_id |-> "c2" ],
                  [ source |-> "mock", id |-> "L3", car_id |-> Missing ],
                  [ source |-> "mock", id |-> Missing, car_id |-> "c1" ],
                  [ source |-> "dealer", id |-> "L1", car_id |-> "c1" ] }
        payload_listings == UNION { [ 1..n -> pool ] : n \in 0..MaxRecords }
        keys == { << "mock", "L1" >>, << "mock", "L2" >>, << "marketcheck", "L1" >> }
        stored ==
            { [ i \in DOMAIN k |-> [ id |-> i, source |-> k[i][1], source_listing_id |-> k[i][2],
                                     car_spec_id |-> 1, status |-> s[i] ] ] :
                k \in UNION { { t \in [ 1..n -> keys ] : \A i, j \in 1..n : t[i] = t[j] => i = j } :
                              n \in 0..MaxRecords },
                s \in [ 1..MaxRecords -> { "active", "inactive" } ] }
    IN  /\ query \in [ source_name : { "mock" }, cars : payload_cars, listings : payload_listings ]
        /\ session \in stored
        /\ cars = IF session = <<>> THEN <<>> ELSE << "c1" >>
        /\ run = IdleBatch
        /\ calls = <<>>
        /\ cars_master = <<>>
        /\ car_listings = <<>>
        /\ user_intent = None
        /\ searches = <<>>

\* normalize_car_spec(car) raises KeyError on a record without the key
normalize_car_spec_raises(car) == car.make = Missing

\* upsert_make, upsert_model, upsert_trim and upsert_car_spec: the car_spec
\* table afterwards and the id of the record's row
upsert_car_spec(table, car) ==
    IF \E i \in DOMAIN table : table[i] = car.id
    THEN [ table |-> table, id |-> CHOOSE i \in DOMAIN table : table[i] = car.id ]
    ELSE [ table |-> Append(table, car.id), id |-> Len(table) + 1 ]

\* upsert_listing(conn, listing): INSERT OR IGNORE on the key (source,
\* source_listing_id), then the UPDATE that sets status = 'active'
upsert_listing(table, listing) ==
    LET same(i) == /\ table[i].source = listing.source
                   /\ table[i].source_listing_id = listing.source_listing_id
        inserted == IF \E i \in DOMAIN table : same(i) THEN table
                    ELSE Append(table, [ id |-> Len(table) + 1, source |-> listing.source,
                                         source_listing_id |-> listing.source_listing_id,
                                         car_spec_id |-> listing.car_spec_id,
                                         status |-> "active" ])
        listing_id == inserted[CHOOSE i \in DOMAIN inserted :
                                   /\ inserted[i].source = listing.source
                                   /\ inserted[i].source_listing_id = listing.source_listing_id].id
    IN  [ table |-> [ i \in DOMAIN inserted |->
                        IF inserted[i].id = listing_id
                        THEN [ inserted[i] EXCEPT !.status = "active" ]
                        ELSE inserted[i] ],
          id |-> listing_id ]

\* mark_missing_listings_inactive(conn, source, seen_ids): nothing is done
\* when seen_ids is empty; else every row of the source whose id is not in
\* seen_ids is set inactive, and the rows so updated are counted
mark_missing_listings_inactive(table, source, seen_ids) ==
    IF seen_ids = {} THEN [ table |-> table, rowcount |-> 0 ]
    ELSE [ table |-> [ i \in DOMAIN table |->
                         IF table[i].source = source /\ table[i].id \notin seen_ids
                         THEN [ table[i] EXCEPT !.status = "inactive" ]
                         ELSE table[i] ],
           rowcount |-> Cardinality({ i \in DOMAIN table :
                                        table[i].source = source /\ table[i].id \notin seen_ids }) ]

\* the run is recorded as running and the counters are set
IngestStart ==
    /\ run.pc = "idle"
    /\ run' = [ pc |-> "running", done |-> 0,
                records_fetched |-> Len(query.cars) + Len(query.listings),
                records_ingested |-> 0, records_failed |-> 0,
                seen_listing_ids |-> {} ]
    /\ UNCHANGED << cars_master, query, calls, car_listings, session, cars, user_intent, searches >>

\* a record that counts as failed, without the count
Failed_uncounted(r) == [ r EXCEPT !.done = @ + 1 ]

\* except Exception: records_failed += 1
Failed(r) == [ r EXCEPT !.done = @ + 1, !.records_failed = @ + 1 ]

\* one turn of "for car in cars"
IngestCar ==
    /\ run.pc = "running"
    /\ run.done < Len(query.cars)
    /\ LET car == query.cars[run.done + 1]
       IN  IF normalize_car_spec_raises(car)
           THEN /\ run' = Failed(run)
                /\ cars' = cars
           ELSE /\ cars' = upsert_car_spec(cars, car).table
                /\ run' = [ run EXCEPT !.done = @ + 1, !.records_ingested = @ + 1 ]
    /\ UNCHANGED << cars_master, query, calls, car_listings, session, user_intent, searches >>

\* next((c for c in cars if c.get("id") == car_id), None)
\* (a record, when there is one)
car_match(payload_cars, car_id) ==
    payload_cars[SetMin({ i \in DOMAIN payload_cars : payload_cars[i].id = car_id })]

\* the listing raises before anything is written: no source_listing_id, no
\* car_id, no car with that id in the payload, or a car that does not
\* normalize
listing_raises(payload_cars, listing) ==
    \/ listing.id = Missing
    \/ listing.car_id = Missing
    \/ ~\E i \in DOMAIN payload_cars : payload_cars[i].id = listing.car_id
    \/ normalize_car_spec_raises(car_match(payload_cars, listing.car_id))

\* one turn of "for listing in listings"
IngestListing ==
    /\ run.pc = "running"
    /\ run.done >= Len(query.cars)
    /\ run.done < run.records_fetched
    /\ LET listing == query.listings[run.done - Len(query.cars) + 1]
       IN  IF listing_raises(query.cars, listing)
           THEN /\ run' = Failed(run)
                /\ UNCHANGED << cars, session >>
           ELSE LET spec == upsert_car_spec(cars, car_match(query.cars, listing.car_id))
                    up == upsert_listing(session, [ source |-> listing.source,
                                                    source_listing_id |-> listing.id,
                                                    car_spec_id |-> spec.id ])
                IN  /\ cars' = spec.table
                    /\ session' = up.table
                    /\ run' = [ run EXCEPT !.done = @ + 1, !.records_ingested = @ + 1,
                                           !.seen_listing_ids = @ \cup { up.id } ]
    /\ UNCHANGED << cars_master, query, calls, car_listings, user_intent, searches >>

\* the missing listings are marked and the run is recorded as completed
IngestFinish ==
    /\ run.pc = "running"
    /\ run.done = run.records_fetched
    /\ LET marked == mark_missing_listings_inactive(session, query.source_name,
                                                    run.seen_listing_ids)
       IN  /\ session' = marked.table
           /\ run' = [ pc |-> "completed", done |-> run.done,
                       records_fetched |-> run.records_fetched,
                       records_ingested |-> run.records_ingested,
                       records_failed |-> run.records_failed,
                       seen_listing_ids |-> run.seen_listing_ids,
                       marked |-> marked.rowcount ]
    /\ UNCHANGED << cars_master, query, calls, car_listings, cars, user_intent, searches >>

NextIngest == IngestStart \/ IngestCar \/ IngestListing \/ IngestFinish

SpecIngest == InitIngest /\ [][NextIngest]_vars

\* C29: when an ingestion run for a source completes, every stored listing
\* of that source that was not upserted during the run has status inactive
\* and every listing upserted during the run has status active, whatever
\* the payload, one of which no listing is ingested included.
C29_MissingListingsInactive ==
    run.pc = "completed" =>
        \A i \in DOMAIN session :
            /\ session[i].id \in run.seen_listing_ids => session[i].status = "active"
            /\ (session[i].source = query.source_name /\ session[i].id \notin run.seen_listing_ids)
                   => session[i].status = "inactive"

\* record n of the payload, cars first, raises when it is processed
RecordRaises(n) ==
    IF n <= Len(query.cars) THEN normalize_car_spec_raises(query.cars[n])
    ELSE listing_raises(query.cars, query.listings[n - Len(query.cars)])

\* C30: in an ingestion run a record whose processing raises is counted as
\* failed and does not stop the processing of later records (every other
\* record is counted as ingested), and when the run is marked completed
\* records_ingested + records_failed = records_fetched, the number of cars
\* plus the number of listings in the payload.
C30_RecordsAccounted ==
    run.pc # "idle" =>
        /\ run.records_fetched = Len(query.cars) + Len(query.listings)
        /\ run.records_failed = Cardinality({ n \in 1..run.done : RecordRaises(n) })
        /\ run.records_ingested = Cardinality({ n \in 1..run.done : ~RecordRaises(n) })
        /\ run.pc = "completed" =>
               /\ run.done = run.records_fetched
               /\ run.records_ingested + run.records_failed = run.records_fetched

\* a completed run in which a car and a listing raised and a listing after
\* them was ingested
C30_Witness ==
    /\ run.pc = "completed"
    /\ \E c \in DOMAIN query.cars : RecordRaises(c)
    /\ \E i, j \in DOMAIN query.listings :
           /\ i < j
           /\ RecordRaises(Len(query.cars) + i)
           /\ ~RecordRaises(Len(query.cars) + j)
    /\ run.records_failed = 2
    /\ run.records_ingested = 2
====
